---------------------------- MODULE Spec2Model ----------------------------
(***************************************************************************)
(* State-machine model of the discrete-event simulations of the            *)
(* repository.                                                             *)
(*                                                                         *)
(* The depot model (src/depot_model_simpy.py) runs on a simpy environment: *)
(* an event queue ordered by (time, priority, insertion order), from which *)
(* the kernel pops one event at a time and resumes the process waiting on  *)
(* it.  The model keeps that queue explicitly (variable queue), so the     *)
(* order in which processes run at one simulation time is the order the    *)
(* kernel gives them.  One action of the model is one resumption of one    *)
(* process: everything the process does up to its next yield.              *)
(*                                                                         *)
(* Time is counted in units of 1/SubTicks of a timetable tick (a 15 minute *)
(* slot), because request times in the source are not whole ticks.         *)
(***************************************************************************)
EXTENDS Integers, Sequences, FiniteSets, TLC

(***************************************************************************)
(* Bounds of the model.                                                    *)
(***************************************************************************)
SubTicks == 2        \* time units per timetable tick
SimTicks == 7        \* horizon of a run, in ticks (SIM_TIME)
TimetableLen == 2    \* length of the cyclic timetable
NumTrains == 10      \* trains of the largest fleet of a run
MaxRequests == 10    \* maintenance_request_object instances per run

NumActivities == 2   \* len(activities)
NumRoads == 2        \* items put into the depot FilterStore

Units == 1..NumTrains
Activities == 1..NumActivities
Roads == 1..NumRoads
Requests == 1..MaxRequests

SIM_TIME == SimTicks * SubTicks
Never == SIM_TIME + 1

\* simpy event priorities: an Initialize event is urgent, a timeout or a
\* resource grant is normal
URGENT == TRUE
NORMAL == FALSE

VARIABLES
    cfg,                        \* the run configuration (read-only)
    now,                        \* env.now
    queue,                      \* the kernel's event queue, in firing order
    updater_pc,                 \* update_timetable_requirement: "run" | "halted"
    timetable_requirement,
    available_to_maintain,
    injection,
    trains_available,
    trains_in_depot,
    staff,
    live_maintenance_requests,
    maintenance_requests,       \* log of request times
    maintenance_completes,      \* completion records, in order
    in_maintenance,             \* Train.in_maintenance, per train
    act,                        \* Train.maintenance_activity processes
    mro,                        \* maintenance_request_object instances
    nreq,                       \* instances created so far
    items,                      \* depot.items
    get_queue,                  \* depot.get_queue (requests waiting for a road)
    ACTIVE_MAINTENANCE,
    \* src/london_waterloo.py
    waterloo_cfg,               \* the durations drawn in a run
    free_platforms,
    waterloo_platforms,         \* simpy.Resource: users and waiting requests
    run_in_authority,
    run_out_authority,
    trains,                     \* run_in_run_out_waterloo processes
    source_i,                   \* source: number of the next train
    output,
    \* src/equipment_availability_sim.py
    repairman,                  \* simpy.PreemptiveResource
    machines,                   \* Machine objects and their working processes
    other_job,                  \* the other_jobs process
    breaks,                     \* breakdowns drawn so far in the run
    \* src/termini_simulation_animation.py
    termini,                    \* the resources of the Termini object
    platform_occupied,          \* platform_1_occupied, _2_ and _4_
    termini_trains,             \* train processes
    termini_i,                  \* setup: trains started so far
    ignored_releases,           \* releases that found no user to remove
    headway_time,               \* the list time
    \* src/network_map_animation_simpy.py
    truck_cfg,                  \* shortest_path and the lengths of its edges
    truck_i,                    \* drive_truck: the loop index
    truck_pc,                   \* drive_truck: "start" | "driving" | "arrived" | "done"
    truck_positions

vars == <<cfg, now, queue, updater_pc, timetable_requirement,
          available_to_maintain, injection, trains_available, trains_in_depot,
          staff, live_maintenance_requests, maintenance_requests,
          maintenance_completes, in_maintenance, act, mro, nreq, items,
          get_queue, ACTIVE_MAINTENANCE, waterloo_cfg, free_platforms,
          waterloo_platforms, run_in_authority, run_out_authority, trains,
          source_i, output, repairman, machines, other_job, breaks,
          termini, platform_occupied, termini_trains, termini_i,
          ignored_releases, headway_time, truck_cfg, truck_i, truck_pc,
          truck_positions>>

depotVars == <<cfg, updater_pc, timetable_requirement, available_to_maintain,
               injection, trains_available, trains_in_depot, staff,
               live_maintenance_requests, maintenance_requests,
               maintenance_completes, in_maintenance, act, mro, nreq, items,
               get_queue, ACTIVE_MAINTENANCE>>

waterlooVars == <<waterloo_cfg, free_platforms, waterloo_platforms,
                  run_in_authority, run_out_authority, trains, source_i, output>>

equipmentVars == <<repairman, machines, other_job, breaks>>

terminiVars == <<termini, platform_occupied, termini_trains, termini_i,
                 ignored_releases, headway_time>>

truckVars == <<truck_cfg, truck_i, truck_pc, truck_positions>>

\* what a step of the depot model leaves alone
outsideDepot == <<waterlooVars, equipmentVars, terminiVars, truckVars>>

\* what a step of the Waterloo model leaves alone
outsideWaterloo == <<depotVars, equipmentVars, terminiVars, truckVars>>

\* what a step of the equipment availability model leaves alone
outsideEquipment == <<depotVars, waterlooVars, terminiVars, truckVars>>

\* what a step of the termini model leaves alone
outsideTermini == <<depotVars, waterlooVars, equipmentVars, truckVars>>

\* what a step of the network map model leaves alone
outsideTruck == <<depotVars, waterlooVars, equipmentVars, terminiVars>>

(***************************************************************************)
(* Run configurations.  The source reads them from module-level            *)
(* assignments and two csv files.                                          *)
(***************************************************************************)
DemandValues == {1, 2, 3}

\* exam_reference: the roads each activity may use
exam_reference == cfg.exam_reference

\* staff requirement of each activity
staff_requirement == [a \in Activities |-> IF a = 1 THEN 3 ELSE 1]

\* a fleet of three trains, two activities and two roads; the first activity
\* may only use the first road
GeneralConfigs ==
    { [ timetable |-> tt,
        injection_window |-> iw,
        fleet_size |-> 3,
        activities |-> NumActivities,
        roads |-> NumRoads,
        exam_reference |-> [a \in Activities |-> IF a = 1 THEN {1} ELSE Roads],
        interval_type |-> [a \in Activities |-> "service hour"],
        trains_in_depot |-> occ,
        exam_length |-> [a \in Activities |-> IF a = 1 THEN el ELSE 2],
        tolerance |-> [a \in Activities |-> IF a = 1 THEN tol ELSE 2],
        time_between_repairs |-> [a \in Activities |-> 2 * SubTicks],
        first |-> [u \in Units |-> [a \in Activities |->
                     CASE u = 1 /\ a = 1 -> SubTicks
                       [] u = 2 /\ a = 1 -> f2
                       [] u = 1 /\ a # 1 -> f12
                       [] OTHER -> Never]] ]
      : tt \in [1..TimetableLen -> DemandValues],
        iw \in [1..TimetableLen -> BOOLEAN],
        el \in {1, 3},
        tol \in {1, 2 * SubTicks},
        f2 \in {SubTicks, SubTicks + 1},
        f12 \in {Never, 2 * SubTicks},
        occ \in {0, 2} }

\* three trains due in the same tick with the same tolerance, spare capacity
\* in the timetable: the third train is due for activity g
RoadContentionConfigs ==
    { [ timetable |-> [i \in 1..TimetableLen |-> 1],
        injection_window |-> [i \in 1..TimetableLen |-> FALSE],
        fleet_size |-> 4,
        activities |-> NumActivities,
        roads |-> NumRoads,
        exam_reference |-> [a \in Activities |-> IF a = 1 THEN {1} ELSE Roads],
        interval_type |-> [a \in Activities |->
                             IF a = 1 THEN "service hour" ELSE ty],
        trains_in_depot |-> 0,
        exam_length |-> [a \in Activities |-> el],
        tolerance |-> [a \in Activities |-> 2 * SubTicks],
        time_between_repairs |-> [a \in Activities |-> 2 * SubTicks],
        first |-> [u \in Units |-> [a \in Activities |->
                     CASE u \in {1, 2} /\ a = 1 -> SubTicks
                       [] u = 3 /\ a = g -> f3
                       [] OTHER -> Never]] ]
      : el \in {1, 3},
        g \in Activities,
        ty \in {"calendar day", "service week"},
        f3 \in {SubTicks, SubTicks + 1} }

\* a fleet of ten trains, one activity due every four ticks with a tolerance
\* of two ticks and an exam of one tick, one road, a flat timetable and no
\* injection; the trains are first due together or one tick after another
ScenarioConfigs ==
    { [ timetable |-> [i \in 1..TimetableLen |-> demand],
        injection_window |-> [i \in 1..TimetableLen |-> FALSE],
        fleet_size |-> 10,
        activities |-> 1,
        roads |-> 1,
        exam_reference |-> [a \in Activities |-> {1}],
        interval_type |-> [a \in Activities |-> "service hour"],
        trains_in_depot |-> 0,
        exam_length |-> [a \in Activities |-> 1],
        tolerance |-> [a \in Activities |-> 2 * SubTicks],
        time_between_repairs |-> [a \in Activities |-> 4 * SubTicks],
        first |-> [u \in Units |-> [a \in Activities |->
                     IF a = 1 /\ u <= 10
                     THEN (IF together THEN SubTicks
                           ELSE SubTicks * (1 + ((u - 1) % 4)))
                     ELSE Never]] ]
      : demand \in {8, 10},
        together \in BOOLEAN }

Configs == GeneralConfigs \cup RoadContentionConfigs \cup ScenarioConfigs

(***************************************************************************)
(* The event queue.                                                        *)
(***************************************************************************)
Event(t, p, k, u, a, r) == [t |-> t, p |-> p, k |-> k, u |-> u, a |-> a, r |-> r]

\* env.schedule: the new event fires after every queued event that has the
\* same or an earlier (time, priority): its insertion number is the largest.
\* (The queue is bound to q as a value, so that nested calls evaluate it once.)
Schedule(queued, e) ==
    CHOOSE inserted \in
        { LET k == Cardinality({i \in 1..Len(q) :
                       \/ q[i].t < e.t
                       \/ (q[i].t = e.t /\ (q[i].p = URGENT \/ e.p = NORMAL))})
          IN  SubSeq(q, 1, k) \o <<e>> \o SubSeq(q, k + 1, Len(q))
          : q \in {queued} } : TRUE

\* env.run(until = SIM_TIME): the kernel pops the next event while it is
\* due before SIM_TIME.
Resumes(k) ==
    /\ queue # <<>>
    /\ Head(queue).t < SIM_TIME
    /\ Head(queue).k = k

NoRequest ==
    [ exists |-> FALSE, train |-> 0, exam_name |-> 0,
      train_seized |-> FALSE, tolerance_exceeded |-> FALSE,
      can_start_maintenance |-> FALSE,
      maximum_future_timetable_requirement |-> 0,
      maximum_future_trains_to_maintain |-> 0,
      request_time |-> 0, maintenance_complete |-> FALSE,
      tolerance_pc |-> "none", lookahead_pc |-> "none", request_pc |-> "none",
      tolerance_time |-> 0, total_timetable_train_start |-> 0,
      time_train_seized |-> 0, trains_in_depot_start |-> 0,
      req |-> 0, start_of_maintenance |-> 0, tolerance_exceeded_rec |-> FALSE ]


(***************************************************************************)
(* Initial state: the module-level assignments, the roads put into the     *)
(* depot, and one Initialize event per process started before env.run, in  *)
(* the order of the env.process calls.                                     *)
(***************************************************************************)
InitialQueue ==
    <<Event(0, URGENT, "update_timetable_requirement", 0, 0, 0)>> \o
    [i \in 1..(cfg.fleet_size * cfg.activities) |->
        Event(0, URGENT, "maintenance_activity",
              ((i - 1) \div cfg.activities) + 1, ((i - 1) % cfg.activities) + 1, 0)]

\* DepotRoads with the first road put into the depot twice
DepotRoadsTwice == <<1>> \o [i \in 1..cfg.roads |-> i]

\* the roads put into the depot before the run
DepotRoads == [i \in 1..cfg.roads |-> i]

DepotStart ==
    /\ cfg \in Configs
    /\ updater_pc = "run"
    /\ timetable_requirement = 0
    /\ available_to_maintain = cfg.fleet_size - 0
    /\ injection = FALSE
    /\ trains_in_depot = cfg.trains_in_depot
    /\ trains_available = cfg.fleet_size - cfg.trains_in_depot
    /\ staff = 0
    /\ live_maintenance_requests = 0
    /\ maintenance_requests = <<>>
    /\ maintenance_completes = <<>>
    /\ in_maintenance = [u \in Units |-> FALSE]
    /\ act = [u \in Units |-> [a \in Activities |-> [pc |-> "start", mro |-> 0, warned |-> FALSE]]]
    /\ mro = [r \in Requests |-> NoRequest]
    /\ nreq = 0
    /\ items = DepotRoads
    /\ get_queue = <<>>
    /\ ACTIVE_MAINTENANCE = [u \in Units |-> [a \in Activities |-> <<>>]]

(***************************************************************************)
(* update_timetable_requirement: one pass of its loop.                     *)
(***************************************************************************)
\* position of time t in the cyclic timetable (0-based, as in the source)
TimetablePosition(t) == (t \div SubTicks) % Len(cfg.timetable)

\* UpdaterHalts with the test left out: the loop goes on
UpdaterNeverHalts(available) == FALSE

\* whether the updater leaves its loop: no trains are available
UpdaterHalts(available) == available < 0

UpdaterStep ==
    /\ Resumes("update_timetable_requirement")
    /\ LET e == Head(queue)
           timenow == TimetablePosition(e.t)
           available == cfg.fleet_size - trains_in_depot
       IN  /\ now' = e.t
           /\ timetable_requirement' = cfg.timetable[timenow + 1]
           /\ available_to_maintain' = cfg.fleet_size - cfg.timetable[timenow + 1]
           /\ injection' = cfg.injection_window[timenow + 1]
           /\ trains_available' = available
           /\ IF UpdaterHalts(available)
              THEN /\ updater_pc' = "halted"
                   /\ queue' = Tail(queue)
              ELSE /\ updater_pc' = "run"
                   /\ queue' = Schedule(Tail(queue),
                          Event(e.t + SubTicks, NORMAL,
                                "update_timetable_requirement", 0, 0, 0))
    /\ UNCHANGED outsideDepot
    /\ UNCHANGED <<cfg, trains_in_depot, staff, live_maintenance_requests,
                   maintenance_requests, maintenance_completes, in_maintenance,
                   act, mro, nreq, items, get_queue, ACTIVE_MAINTENANCE>>

(***************************************************************************)
(* maintenance_request_object.__init__ and Train.maintenance_activity.     *)
(***************************************************************************)
\* the fields __init__ sets for a request of train u, activity a at time t
NewRequest(u, a, t) ==
    [ NoRequest EXCEPT
        !.exists = TRUE, !.train = u, !.exam_name = a,
        !.maximum_future_timetable_requirement = timetable_requirement,
        !.maximum_future_trains_to_maintain = available_to_maintain,
        !.request_time = t,
        !.tolerance_pc = "init", !.lookahead_pc = "init", !.request_pc = "init" ]

\* StartRequestProcesses with the request process started before the lookahead
StartRequestProcessesRequestFirst(q, t, r) ==
    Schedule(Schedule(Schedule(q,
        Event(t, URGENT, "tolerance_countdown", 0, 0, r)),
        Event(t, URGENT, "maintenance_request", 0, 0, r)),
        Event(t, URGENT, "timetable_lookahead", 0, 0, r))

\* the three processes __init__ starts, in its order
StartRequestProcesses(q, t, r) ==
    Schedule(Schedule(Schedule(q,
        Event(t, URGENT, "tolerance_countdown", 0, 0, r)),
        Event(t, URGENT, "timetable_lookahead", 0, 0, r)),
        Event(t, URGENT, "maintenance_request", 0, 0, r))

\* interval drawing from a distribution around the time between repairs
intervalDrawn(time) == 1..time

\* the values interval(time) may return: it returns its argument
interval(time) == {time}

\* PreviousComplete taking the admission of the request for its completion
PreviousAdmitted(r) == mro[r].can_start_maintenance

\* the test of the polling loop: the request created last has completed
PreviousComplete(r) == mro[r].maintenance_complete

\* the interval types maintenance_activity converts to days
IntervalTypes == {"service day", "calendar day", "mileage", "service hour"}

\* whether the chain of tests on interval_type finds a branch; if it finds
\* none the process prints a warning and goes on with the interval as given
ServiceIntervalAssigned(interval_type) == interval_type \in IntervalTypes

ActivityStep ==
    /\ Resumes("maintenance_activity")
    /\ LET e == Head(queue)
           u == e.u
           a == e.a
           p == act[u][a]
           r == nreq + 1
           again == Event(e.t + SubTicks, NORMAL, "maintenance_activity", u, a, 0)
       IN  /\ now' = e.t
           /\ CASE p.pc = "start" ->
                    \* convert the interval, with a warning if its type is not
                    \* known, and wait for the first maintenance of this train
                    /\ act' = [act EXCEPT ![u][a].pc = "first",
                                           ![u][a].warned =
                                               ~ServiceIntervalAssigned(cfg.interval_type[a])]
                    /\ queue' = Schedule(Tail(queue),
                           Event(cfg.first[u][a], NORMAL, "maintenance_activity", u, a, 0))
                    /\ UNCHANGED <<mro, nreq, ACTIVE_MAINTENANCE>>
                [] p.pc \in {"first", "interval"} /\ nreq < MaxRequests ->
                    \* create a maintenance request, then poll it
                    /\ mro' = [mro EXCEPT ![r] = NewRequest(u, a, e.t)]
                    /\ nreq' = r
                    /\ ACTIVE_MAINTENANCE' =
                           [ACTIVE_MAINTENANCE EXCEPT ![u][a] = Append(@, r)]
                    /\ act' = [act EXCEPT ![u][a].pc = "poll", ![u][a].mro = r]
                    /\ queue' = Schedule(StartRequestProcesses(Tail(queue), e.t, r), again)
                [] p.pc \in {"first", "interval"} /\ nreq >= MaxRequests ->
                    \* the model creates no further request
                    /\ act' = [act EXCEPT ![u][a].pc = "capped"]
                    /\ queue' = Tail(queue)
                    /\ UNCHANGED <<mro, nreq, ACTIVE_MAINTENANCE>>
                [] p.pc = "poll" /\ ~PreviousComplete(p.mro) ->
                    /\ queue' = Schedule(Tail(queue), again)
                    /\ UNCHANGED <<act, mro, nreq, ACTIVE_MAINTENANCE>>
                [] p.pc = "poll" /\ PreviousComplete(p.mro) ->
                    /\ act' = [act EXCEPT ![u][a].pc = "interval"]
                    /\ \E d \in interval(cfg.time_between_repairs[a]) :
                           queue' = Schedule(Tail(queue),
                               Event(e.t + d, NORMAL, "maintenance_activity", u, a, 0))
                    /\ UNCHANGED <<mro, nreq, ACTIVE_MAINTENANCE>>
    /\ UNCHANGED outsideDepot
    /\ UNCHANGED <<cfg, updater_pc, timetable_requirement, available_to_maintain,
                   injection, trains_available, trains_in_depot, staff,
                   live_maintenance_requests, maintenance_requests,
                   maintenance_completes, in_maintenance, items, get_queue>>

(***************************************************************************)
(* maintenance_request_object.tolerance_countdown                          *)
(***************************************************************************)
\* ToleranceDelay, one tick late
ToleranceDelayLate(a) == cfg.tolerance[a] + SubTicks

\* the delay the countdown waits before it sets the flag
ToleranceDelay(a) == cfg.tolerance[a]

ToleranceStep ==
    /\ Resumes("tolerance_countdown")
    /\ LET e == Head(queue)
           r == e.r
       IN  /\ now' = e.t
           /\ IF mro[r].tolerance_pc = "init"
              THEN /\ mro' = [mro EXCEPT ![r].tolerance_pc = "wait"]
                   /\ queue' = Schedule(Tail(queue),
                          Event(e.t + ToleranceDelay(mro[r].exam_name), NORMAL,
                                "tolerance_countdown", 0, 0, r))
              ELSE /\ mro' = [mro EXCEPT ![r].tolerance_exceeded = TRUE,
                                         ![r].train_seized = TRUE,
                                         ![r].tolerance_pc = "done"]
                   /\ queue' = Tail(queue)
    /\ UNCHANGED outsideDepot
    /\ UNCHANGED <<cfg, updater_pc, timetable_requirement, available_to_maintain,
                   injection, trains_available, trains_in_depot, staff,
                   live_maintenance_requests, maintenance_requests,
                   maintenance_completes, in_maintenance, act, nreq, items,
                   get_queue, ACTIVE_MAINTENANCE>>

(***************************************************************************)
(* maintenance_request_object.timetable_lookahead                          *)
(***************************************************************************)
RECURSIVE SeqMax(_)
SeqMax(s) ==
    IF Len(s) = 1 THEN s[1]
    ELSE LET m == SeqMax(Tail(s)) IN IF s[1] >= m THEN s[1] ELSE m

\* future_timetable_requirements: the slots the source collects for an exam
\* of exam_length ticks starting at time t
FutureTimetableRequirements(t, exam_length) ==
    LET tt == cfg.timetable
        current_timetable_position == TimetablePosition(t)
        exam_finish_timetable_position ==
            ((t \div SubTicks) + exam_length) % Len(tt)
    IN  IF current_timetable_position < exam_finish_timetable_position
        THEN [i \in 1..(exam_finish_timetable_position - current_timetable_position)
                |-> tt[current_timetable_position + i]]
        ELSE [i \in 1..(Len(tt) - current_timetable_position)
                |-> tt[current_timetable_position + i]]
             \o [i \in 1..exam_finish_timetable_position |-> tt[i]]

\* LookaheadContinues without the test: the loop never ends
LookaheadForever(r) == TRUE

\* the condition of the lookahead loop
LookaheadContinues(r) == mro[r].can_start_maintenance = FALSE

LookaheadStep ==
    /\ Resumes("timetable_lookahead")
    /\ LET e == Head(queue)
           r == e.r
           m == SeqMax(FutureTimetableRequirements(e.t, cfg.exam_length[mro[r].exam_name]))
       IN  /\ now' = e.t
           /\ IF LookaheadContinues(r)
              THEN /\ mro' = [mro EXCEPT
                          ![r].maximum_future_timetable_requirement = m,
                          ![r].maximum_future_trains_to_maintain = cfg.fleet_size - m,
                          ![r].lookahead_pc = "loop"]
                   /\ queue' = Schedule(Tail(queue),
                          Event(e.t + SubTicks, NORMAL, "timetable_lookahead", 0, 0, r))
              ELSE /\ mro' = [mro EXCEPT ![r].lookahead_pc = "done"]
                   /\ queue' = Tail(queue)
    /\ UNCHANGED outsideDepot
    /\ UNCHANGED <<cfg, updater_pc, timetable_requirement, available_to_maintain,
                   injection, trains_available, trains_in_depot, staff,
                   live_maintenance_requests, maintenance_requests,
                   maintenance_completes, in_maintenance, act, nreq, items,
                   get_queue, ACTIVE_MAINTENANCE>>

(***************************************************************************)
(* The depot FilterStore.                                                  *)
(***************************************************************************)
\* FirstMatch with a filter that accepts every road
FirstMatchAny(its, a) == IF its = <<>> THEN 0 ELSE 1

\* index of the first item of its that the filter of activity a accepts, or 0
FirstMatch(its, a) ==
    IF \E i \in 1..Len(its) : its[i] \in exam_reference[a]
    THEN CHOOSE i \in 1..Len(its) :
            /\ its[i] \in exam_reference[a]
            /\ \A j \in 1..(i - 1) : its[j] \notin exam_reference[a]
    ELSE 0

RemoveAt(s, i) == SubSeq(s, 1, i - 1) \o SubSeq(s, i + 1, Len(s))

\* TriggerGet serving the waiting gets from the newest to the oldest
RECURSIVE TriggerGetNewestFirst(_, _)
TriggerGetNewestFirst(its, gq) ==
    IF gq = <<>>
    THEN [items |-> its, get_queue |-> <<>>, granted |-> <<>>]
    ELSE LET r == gq[Len(gq)]
             i == FirstMatch(its, mro[r].exam_name)
             rest == TriggerGetNewestFirst(IF i > 0 THEN RemoveAt(its, i) ELSE its,
                                           SubSeq(gq, 1, Len(gq) - 1))
         IN  IF i > 0
             THEN [rest EXCEPT !.granted = Append(@, [r |-> r, item |-> its[i]])]
             ELSE [rest EXCEPT !.get_queue = Append(@, r)]

\* FilterStore._trigger_get: every waiting get, in queue order, takes the
\* first item its filter accepts; a get that finds none stays queued.
RECURSIVE TriggerGet(_, _)
TriggerGet(its, gq) ==
    IF gq = <<>>
    THEN [items |-> its, get_queue |-> <<>>, granted |-> <<>>]
    ELSE LET r == Head(gq)
             i == FirstMatch(its, mro[r].exam_name)
             rest == TriggerGet(IF i > 0 THEN RemoveAt(its, i) ELSE its, Tail(gq))
         IN  IF i > 0
             THEN [rest EXCEPT !.granted = <<[r |-> r, item |-> its[i]]>> \o @]
             ELSE [rest EXCEPT !.get_queue = <<r>> \o @]

\* a granted get carries its item to the request and schedules its resumption
RECURSIVE ApplyGrants(_, _)
ApplyGrants(m, grants) ==
    IF grants = <<>> THEN m
    ELSE ApplyGrants([m EXCEPT ![Head(grants).r].req = Head(grants).item,
                               ![Head(grants).r].request_pc = "granted"],
                     Tail(grants))

RECURSIVE ScheduleGrants(_, _, _)
ScheduleGrants(q, t, grants) ==
    IF grants = <<>> THEN q
    ELSE ScheduleGrants(
             Schedule(q, Event(t, NORMAL, "maintenance_request", 0, 0, Head(grants).r)),
             t, Tail(grants))

(***************************************************************************)
(* maintenance_request_object.maintenance_request                          *)
(***************************************************************************)
\* CanStartMaintenance without the test against the current capacity
CanStartMaintenanceNoCurrentTest(r) ==
    /\ \/ /\ injection = FALSE
          /\ trains_in_depot < mro[r].maximum_future_trains_to_maintain
       \/ mro[r].tolerance_exceeded = TRUE
    /\ ~in_maintenance[mro[r].train]

\* CanStartMaintenance without the tolerance override
CanStartMaintenanceNoOverride(r) ==
    /\ injection = FALSE
    /\ trains_in_depot < mro[r].maximum_future_trains_to_maintain
    /\ trains_in_depot < available_to_maintain
    /\ ~in_maintenance[mro[r].train]

\* CanStartMaintenance with the test of in_maintenance on the first branch only
CanStartMaintenanceOverrideUnguarded(r) ==
    \/ /\ injection = FALSE
       /\ trains_in_depot < mro[r].maximum_future_trains_to_maintain
       /\ trains_in_depot < available_to_maintain
       /\ ~in_maintenance[mro[r].train]
    \/ mro[r].tolerance_exceeded = TRUE

\* CanStartMaintenance without the tests of occupancy against capacity
CanStartMaintenanceNoOccupancyTest(r) ==
    /\ \/ injection = FALSE
       \/ mro[r].tolerance_exceeded = TRUE
    /\ ~in_maintenance[mro[r].train]

\* CanStartMaintenance with the capacities themselves allowed as occupancy
CanStartMaintenanceAtCapacity(r) ==
    /\ \/ /\ injection = FALSE
          /\ trains_in_depot <= mro[r].maximum_future_trains_to_maintain
          /\ trains_in_depot <= available_to_maintain
       \/ mro[r].tolerance_exceeded = TRUE
    /\ ~in_maintenance[mro[r].train]

\* the condition of the admission loop
CanStartMaintenance(r) ==
    /\ \/ /\ injection = FALSE
          /\ trains_in_depot < mro[r].maximum_future_trains_to_maintain
          /\ trains_in_depot < available_to_maintain
       \/ mro[r].tolerance_exceeded = TRUE
    /\ ~in_maintenance[mro[r].train]

\* OccupancyAfterAdmission with the increment left to a later resumption
OccupancyAfterAdmissionLate(n) == n

\* trains_in_depot after the admitted request has counted itself
OccupancyAfterAdmission(n) == n + 1

\* LiveAfterAdmission without the decrement
LiveRequestsKept(n) == n

\* live_maintenance_requests after an admitted request has left the count
LiveAfterAdmission(n) == n - 1

\* the admission loop: from the start of the process, or after a one-tick wait
RequestAdmissionStep ==
    /\ Resumes("maintenance_request")
    /\ mro[Head(queue).r].request_pc \in {"init", "await"}
    /\ LET e == Head(queue)
           r == e.r
           first == (mro[r].request_pc = "init")
           live == IF first THEN live_maintenance_requests + 1
                   ELSE live_maintenance_requests
           m1 == IF first
                 THEN [mro EXCEPT ![r].tolerance_time =
                                      e.t + cfg.tolerance[mro[r].exam_name]]
                 ELSE mro
           g == TriggerGet(items, Append(get_queue, r))
           m2 == [m1 EXCEPT
                    ![r].can_start_maintenance = TRUE,
                    ![r].train_seized = TRUE,
                    ![r].total_timetable_train_start =
                        cfg.fleet_size - mro[r].maximum_future_trains_to_maintain,
                    ![r].time_train_seized = e.t,
                    ![r].trains_in_depot_start = trains_in_depot,
                    ![r].request_pc = "getroad"]
       IN  /\ now' = e.t
           /\ maintenance_requests' =
                  IF first THEN Append(maintenance_requests, e.t)
                  ELSE maintenance_requests
           /\ IF CanStartMaintenance(r)
              THEN /\ in_maintenance' = [in_maintenance EXCEPT ![mro[r].train] = TRUE]
                   /\ live_maintenance_requests' = LiveAfterAdmission(live)
                   /\ trains_in_depot' = OccupancyAfterAdmission(trains_in_depot)
                   /\ items' = g.items
                   /\ get_queue' = g.get_queue
                   /\ mro' = ApplyGrants(m2, g.granted)
                   /\ queue' = ScheduleGrants(Tail(queue), e.t, g.granted)
              ELSE /\ live_maintenance_requests' = live
                   /\ mro' = [m1 EXCEPT ![r].request_pc = "await"]
                   /\ queue' = Schedule(Tail(queue),
                          Event(e.t + SubTicks, NORMAL, "maintenance_request", 0, 0, r))
                   /\ UNCHANGED <<in_maintenance, trains_in_depot, items, get_queue>>
    /\ UNCHANGED outsideDepot
    /\ UNCHANGED <<cfg, updater_pc, timetable_requirement, available_to_maintain,
                   injection, trains_available, staff, maintenance_completes,
                   act, nreq, ACTIVE_MAINTENANCE>>

\* BlockedByInjection with the check left out
NeverBlocked == FALSE

\* BlockedByInjection reading no flag: the request waits whatever it is
AlwaysBlocked == TRUE

\* ToleranceAtStart, taken as whether the deadline had passed at seizure
ToleranceAtSeizure(r) == mro[r].time_train_seized >= mro[r].tolerance_time

\* whether a request that holds its road has to wait another tick
BlockedByInjection == injection = TRUE

\* the flag value the request logs when its maintenance starts
ToleranceAtStart(r) == mro[r].tolerance_exceeded

\* with the road in hand: wait while trains are injected, then start the exam
RequestStartStep ==
    /\ Resumes("maintenance_request")
    /\ mro[Head(queue).r].request_pc \in {"granted", "blackout"}
    /\ LET e == Head(queue)
           r == e.r
           a == mro[r].exam_name
       IN  /\ now' = e.t
           /\ IF BlockedByInjection
              THEN /\ mro' = [mro EXCEPT ![r].request_pc = "blackout"]
                   /\ queue' = Schedule(Tail(queue),
                          Event(e.t + SubTicks, NORMAL, "maintenance_request", 0, 0, r))
                   /\ staff' = staff
              ELSE /\ staff' = staff + staff_requirement[a]
                   /\ mro' = [mro EXCEPT
                          ![r].start_of_maintenance = e.t,
                          ![r].tolerance_exceeded_rec = ToleranceAtStart(r),
                          ![r].request_pc = "exam"]
                   /\ queue' = Schedule(Tail(queue),
                          Event(e.t + cfg.exam_length[a] * SubTicks, NORMAL,
                                "maintenance_request", 0, 0, r))
    /\ UNCHANGED outsideDepot
    /\ UNCHANGED <<cfg, updater_pc, timetable_requirement, available_to_maintain,
                   injection, trains_available, trains_in_depot,
                   live_maintenance_requests, maintenance_requests,
                   maintenance_completes, in_maintenance, act, nreq, items,
                   get_queue, ACTIVE_MAINTENANCE>>

\* OccupancyAfterExam without the decrement
OccupancyKept(n) == n

\* StaffAfterExam releasing one member of staff whatever the requirement
StaffReleaseOne(n, a) == n - 1

\* occupancy and staff in use after an exam of activity a has ended
OccupancyAfterExam(n) == n - 1
StaffAfterExam(n, a) == n - staff_requirement[a]

\* the exam timeout has elapsed: leave the depot, release staff, put the road back
RequestExamEndStep ==
    /\ Resumes("maintenance_request")
    /\ mro[Head(queue).r].request_pc = "exam"
    /\ LET e == Head(queue)
           r == e.r
       IN  /\ now' = e.t
           /\ trains_in_depot' = OccupancyAfterExam(trains_in_depot)
           /\ staff' = StaffAfterExam(staff, mro[r].exam_name)
           /\ items' = Append(items, mro[r].req)
           /\ mro' = [mro EXCEPT ![r].request_pc = "putting"]
           /\ queue' = Schedule(Tail(queue),
                  Event(e.t, NORMAL, "maintenance_request", 0, 0, r))
    /\ UNCHANGED outsideDepot
    /\ UNCHANGED <<cfg, updater_pc, timetable_requirement, available_to_maintain,
                   injection, trains_available, live_maintenance_requests,
                   maintenance_requests, maintenance_completes, in_maintenance,
                   act, nreq, get_queue, ACTIVE_MAINTENANCE>>

\* CompletedRequest clearing the flags of the request
CompletedRequestReset(rec) ==
    [rec EXCEPT !.maintenance_complete = TRUE, !.request_pc = "complete",
                !.tolerance_exceeded = FALSE]

\* CompletedRequest putting the request back before its admission
CompletedRequestReopened(rec) ==
    [rec EXCEPT !.maintenance_complete = TRUE, !.request_pc = "complete",
                !.can_start_maintenance = FALSE, !.train_seized = FALSE]

\* the fields of a request once it has completed
CompletedRequest(rec) ==
    [rec EXCEPT !.maintenance_complete = TRUE, !.request_pc = "complete"]

\* RemoveRequest leaving the completed request in the list
RemoveRequestSkipped(open, r) == open

\* ACTIVE_MAINTENANCE[train_number][exam_name].remove(self), if self is in it
RemoveRequest(open, r) ==
    IF \E j \in 1..Len(open) : open[j] = r
    THEN LET k == CHOOSE j \in 1..Len(open) :
                      open[j] = r /\ \A h \in 1..(j - 1) : open[h] # r
         IN  RemoveAt(open, k)
    ELSE open

\* the line the request logs when it completes
CompletionRecord(r, t) ==
    [ mro |-> r, train |-> mro[r].train, exam_name |-> mro[r].exam_name,
      start_of_maintenance |-> mro[r].start_of_maintenance,
      end_of_maintenance |-> t,
      total_timetable_train_start |-> mro[r].total_timetable_train_start,
      trains_in_depot_start |-> mro[r].trains_in_depot_start,
      tolerance_exceeded |-> mro[r].tolerance_exceeded_rec,
      road_used |-> mro[r].req,
      time_train_seized |-> mro[r].time_train_seized,
      time_left |-> mro[r].tolerance_time - mro[r].time_train_seized ]

\* the put has been processed: waiting gets are served, then the request
\* completes
RequestCompleteStep ==
    /\ Resumes("maintenance_request")
    /\ mro[Head(queue).r].request_pc = "putting"
    /\ LET e == Head(queue)
           r == e.r
           u == mro[r].train
           a == mro[r].exam_name
           g == TriggerGet(items, get_queue)
       IN  /\ now' = e.t
           /\ items' = g.items
           /\ get_queue' = g.get_queue
           /\ queue' = ScheduleGrants(Tail(queue), e.t, g.granted)
           /\ maintenance_completes' =
                  Append(maintenance_completes, CompletionRecord(r, e.t))
           /\ mro' = [ApplyGrants(mro, g.granted) EXCEPT ![r] = CompletedRequest(mro[r])]
           /\ in_maintenance' = [in_maintenance EXCEPT ![u] = FALSE]
           /\ ACTIVE_MAINTENANCE' = [ACTIVE_MAINTENANCE EXCEPT ![u][a] =
                  RemoveRequest(@, r)]
    /\ UNCHANGED outsideDepot
    /\ UNCHANGED <<cfg, updater_pc, timetable_requirement, available_to_maintain,
                   injection, trains_available, trains_in_depot, staff,
                   live_maintenance_requests, maintenance_requests, act, nreq>>

(***************************************************************************)
(* simpy.Resource, as src/london_waterloo.py uses it.  A resource is its    *)
(* list of users and its queue of waiting requests; a request is named by  *)
(* the process that issued it.                                             *)
(***************************************************************************)
NoResource == [users |-> <<>>, put_queue |-> <<>>]

\* TriggerPut serving the newest waiting request
TriggerPutNewest(res, capacity) ==
    IF res.put_queue # <<>> /\ Len(res.users) < capacity
    THEN [res |-> [users |-> Append(res.users, res.put_queue[Len(res.put_queue)]),
                   put_queue |-> SubSeq(res.put_queue, 1, Len(res.put_queue) - 1)],
          granted |-> <<res.put_queue[Len(res.put_queue)]>>]
    ELSE [res |-> res, granted |-> <<>>]

\* Resource._trigger_put: the first waiting request becomes a user if a slot
\* is free; requests behind it are not looked at.
TriggerPut(res, capacity) ==
    IF res.put_queue # <<>> /\ Len(res.users) < capacity
    THEN [res |-> [users |-> Append(res.users, Head(res.put_queue)),
                   put_queue |-> Tail(res.put_queue)],
          granted |-> <<Head(res.put_queue)>>]
    ELSE [res |-> res, granted |-> <<>>]

\* resource.request() by process n
Request(res, capacity, n) ==
    TriggerPut([res EXCEPT !.put_queue = Append(@, n)], capacity)

\* resource.release(request of process n): the user is removed at once (a
\* request that is not a user is ignored); waiting requests are served when
\* the release event is processed.
Release(res, n) ==
    [res EXCEPT !.users = SelectSeq(@, LAMBDA x : x # n)]

(***************************************************************************)
(* src/london_waterloo.py                                                  *)
(***************************************************************************)
WaterlooTrains == 26         \* trains the source starts in the model

PLATFORMS == 24              \* capacity of waterloo_platforms
RUN_IN == 3                  \* capacity of run_in_authority
RUN_OUT == 3                 \* capacity of run_out_authority
HEADWAY == 10                \* the source's timeout between trains
WATERLOO_UNTIL == 10800      \* env.run(until = 10800)

\* the three resources, as the event field a names them
PlatformsId == 1            \* waterloo_platforms
RunInId == 2                \* run_in_authority
RunOutId == 3               \* run_out_authority

\* the durations a run may draw: uniform(94, 100), triangular(180, 600, 300)
\* and uniform(119, 125); random.choice takes the first or the last free
\* platform
WaterlooConfigs ==
    { [run_in |-> ri, boarding |-> b, run_out |-> ro, choice |-> c] :
        ri \in {94, 100}, b \in {180, 600}, ro \in {119, 125},
        c \in {"first", "last"} }

WaterlooIdle ==
    /\ waterloo_cfg = CHOOSE c \in WaterlooConfigs : TRUE
    /\ free_platforms = <<>>
    /\ waterloo_platforms = NoResource
    /\ run_in_authority = NoResource
    /\ run_out_authority = NoResource
    /\ trains = [n \in 1..WaterlooTrains |-> [pc |-> "none", platform_choice |-> 0]]
    /\ source_i = 1
    /\ output = <<>>

WaterlooStart ==
    /\ waterloo_cfg \in WaterlooConfigs
    /\ free_platforms = [i \in 1..PLATFORMS |-> i]
    /\ waterloo_platforms = NoResource
    /\ run_in_authority = NoResource
    /\ run_out_authority = NoResource
    /\ trains = [n \in 1..WaterlooTrains |-> [pc |-> "none", platform_choice |-> 0]]
    /\ source_i = 1
    /\ output = <<>>

WaterlooResumes(k) ==
    /\ queue # <<>>
    /\ Head(queue).t < WATERLOO_UNTIL
    /\ Head(queue).k = k

TrainEvent(t, n) == Event(t, NORMAL, "run_in_run_out_waterloo", n, 0, 0)
ReleaseEvent(t, id) == Event(t, NORMAL, "Release", 0, id, 0)

\* the events of the requests a trigger granted
RECURSIVE ScheduleTrains(_, _, _)
ScheduleTrains(q, t, granted) ==
    IF granted = <<>> THEN q
    ELSE ScheduleTrains(Schedule(q, TrainEvent(t, Head(granted))), t, Tail(granted))

\* source: start the next train every HEADWAY
WaterlooSourceStep ==
    /\ WaterlooResumes("source")
    /\ LET e == Head(queue)
       IN  /\ now' = e.t
           /\ IF Head(queue).u = 0
              THEN \* the first resumption only starts the first wait
                   /\ queue' = Schedule(Tail(queue),
                          Event(e.t + HEADWAY, NORMAL, "source", 1, 0, 0))
                   /\ UNCHANGED <<trains, source_i>>
              ELSE /\ trains' = [trains EXCEPT ![source_i].pc = "init"]
                   /\ source_i' = source_i + 1
                   /\ queue' =
                        LET q1 == Schedule(Tail(queue),
                                    Event(e.t, URGENT, "run_in_run_out_waterloo",
                                          source_i, 0, 0))
                        IN  IF source_i < WaterlooTrains
                            THEN Schedule(q1, Event(e.t + HEADWAY, NORMAL, "source", 1, 0, 0))
                            ELSE q1
    /\ UNCHANGED <<waterloo_cfg, free_platforms, waterloo_platforms,
                   run_in_authority, run_out_authority, output>>
    /\ UNCHANGED outsideWaterloo

\* random.choice(free_platforms)
PlatformChoice ==
    IF waterloo_cfg.choice = "first" THEN free_platforms[1]
    ELSE free_platforms[Len(free_platforms)]

\* FreePlatformsAfterChoice leaving the chosen platform in the list
FreePlatformsKept(free, c) == free

\* free_platforms.remove(platform_choice): the list without the first
\* occurrence of the chosen platform
FreePlatformsAfterChoice(free, c) ==
    LET k == CHOOSE j \in 1..Len(free) :
                 free[j] = c /\ \A h \in 1..(j - 1) : free[h] # c
    IN  SubSeq(free, 1, k - 1) \o SubSeq(free, k + 1, Len(free))

\* run_in_run_out_waterloo: one resumption of train n
WaterlooTrainStep ==
    /\ WaterlooResumes("run_in_run_out_waterloo")
    /\ LET e == Head(queue)
           n == e.u
           pc == trains[n].pc
           q == Tail(queue)
       IN  /\ now' = e.t
           /\ CASE pc = "init" ->
                    LET g == Request(waterloo_platforms, PLATFORMS, n)
                    IN  /\ waterloo_platforms' = g.res
                        /\ queue' = ScheduleTrains(q, e.t, g.granted)
                        /\ trains' = [trains EXCEPT ![n].pc = "wait_platform"]
                        /\ UNCHANGED <<free_platforms, run_in_authority,
                                       run_out_authority, output>>
                [] pc = "wait_platform" ->
                    LET g == Request(run_in_authority, RUN_IN, n)
                        c == PlatformChoice
                    IN  /\ free_platforms' = FreePlatformsAfterChoice(free_platforms, c)
                        /\ run_in_authority' = g.res
                        /\ queue' = ScheduleTrains(q, e.t, g.granted)
                        /\ trains' = [trains EXCEPT ![n] =
                               [pc |-> "wait_run_in", platform_choice |-> c]]
                        /\ UNCHANGED <<waterloo_platforms, run_out_authority, output>>
                [] pc = "wait_run_in" ->
                    /\ queue' = Schedule(q, TrainEvent(e.t + waterloo_cfg.run_in, n))
                    /\ trains' = [trains EXCEPT ![n].pc = "running_in"]
                    /\ UNCHANGED <<free_platforms, waterloo_platforms,
                                   run_in_authority, run_out_authority, output>>
                [] pc = "running_in" ->
                    /\ run_in_authority' = Release(run_in_authority, n)
                    /\ queue' = Schedule(Schedule(q, ReleaseEvent(e.t, RunInId)),
                                         TrainEvent(e.t + waterloo_cfg.boarding, n))
                    /\ trains' = [trains EXCEPT ![n].pc = "boarding"]
                    /\ UNCHANGED <<free_platforms, waterloo_platforms,
                                   run_out_authority, output>>
                [] pc = "boarding" ->
                    LET g == Request(run_out_authority, RUN_OUT, n)
                    IN  /\ run_out_authority' = g.res
                        /\ queue' = ScheduleTrains(q, e.t, g.granted)
                        /\ trains' = [trains EXCEPT ![n].pc = "wait_run_out"]
                        /\ UNCHANGED <<free_platforms, waterloo_platforms,
                                       run_in_authority, output>>
                [] pc = "wait_run_out" ->
                    /\ output' = Append(output, [Train |-> n, DepartureTime |-> e.t])
                    /\ queue' = Schedule(q, TrainEvent(e.t + waterloo_cfg.run_out, n))
                    /\ trains' = [trains EXCEPT ![n].pc = "running_out"]
                    /\ UNCHANGED <<free_platforms, waterloo_platforms,
                                   run_in_authority, run_out_authority>>
                [] pc = "running_out" ->
                    /\ waterloo_platforms' = Release(waterloo_platforms, n)
                    /\ free_platforms' = Append(free_platforms, trains[n].platform_choice)
                    /\ run_out_authority' = Release(run_out_authority, n)
                    /\ queue' = Schedule(Schedule(q, ReleaseEvent(e.t, PlatformsId)),
                                         ReleaseEvent(e.t, RunOutId))
                    /\ trains' = [trains EXCEPT ![n].pc = "left"]
                    /\ UNCHANGED <<run_in_authority, output>>
    /\ UNCHANGED <<waterloo_cfg, source_i>>
    /\ UNCHANGED outsideWaterloo

\* a release event is processed: the resource serves its waiting requests
WaterlooReleaseStep ==
    /\ WaterlooResumes("Release")
    /\ LET e == Head(queue)
           gp == TriggerPut(waterloo_platforms, PLATFORMS)
           gi == TriggerPut(run_in_authority, RUN_IN)
           go == TriggerPut(run_out_authority, RUN_OUT)
       IN  /\ now' = e.t
           /\ CASE e.a = PlatformsId ->
                    /\ waterloo_platforms' = gp.res
                    /\ queue' = ScheduleTrains(Tail(queue), e.t, gp.granted)
                    /\ UNCHANGED <<run_in_authority, run_out_authority>>
                [] e.a = RunInId ->
                    /\ run_in_authority' = gi.res
                    /\ queue' = ScheduleTrains(Tail(queue), e.t, gi.granted)
                    /\ UNCHANGED <<waterloo_platforms, run_out_authority>>
                [] e.a = RunOutId ->
                    /\ run_out_authority' = go.res
                    /\ queue' = ScheduleTrains(Tail(queue), e.t, go.granted)
                    /\ UNCHANGED <<waterloo_platforms, run_in_authority>>
    /\ UNCHANGED <<waterloo_cfg, free_platforms, trains, source_i, output>>
    /\ UNCHANGED outsideWaterloo

(***************************************************************************)
(* simpy.PreemptiveResource, as src/equipment_availability_sim.py uses it. *)
(* A request is [proc, priority, time]; its key is (priority, time).       *)
(***************************************************************************)
KeyLess(x, y) ==
    \/ x.priority < y.priority
    \/ (x.priority = y.priority /\ x.time < y.time)

\* SortedQueue.append: a stable sort by key
SortedAppend(pq, x) ==
    LET k == Cardinality({i \in 1..Len(pq) : ~KeyLess(x, pq[i])})
    IN  SubSeq(pq, 1, k) \o <<x>> \o SubSeq(pq, k + 1, Len(pq))

\* sorted(users, key)[-1]: the user with the largest key, the last of equals
LastByKey(users) ==
    CHOOSE i \in 1..Len(users) :
        \A j \in 1..Len(users) :
            \/ KeyLess(users[j], users[i])
            \/ (~KeyLess(users[i], users[j]) /\ j <= i)

\* PreemptiveResource._do_put for the first waiting request: with every slot
\* taken, the user with the largest key is removed and interrupted if its key
\* is larger than the request's; the request becomes a user if a slot is free.
PreemptiveTriggerPut(res, capacity) ==
    IF res.put_queue = <<>>
    THEN [res |-> res, granted |-> <<>>, interrupted |-> <<>>]
    ELSE LET x == Head(res.put_queue)
             full == Len(res.users) >= capacity
             v == LastByKey(res.users)
             preempts == full /\ KeyLess(x, res.users[v])
             users1 == IF preempts THEN RemoveAt(res.users, v) ELSE res.users
             interrupted == IF preempts THEN <<res.users[v].proc>> ELSE <<>>
         IN  IF Len(users1) < capacity
             THEN [res |-> [users |-> Append(users1, x),
                            put_queue |-> Tail(res.put_queue)],
                   granted |-> <<x.proc>>, interrupted |-> interrupted]
             ELSE [res |-> [res EXCEPT !.users = users1],
                   granted |-> <<>>, interrupted |-> interrupted]

\* repairman.request(priority) by process n at time t
PriorityRequest(res, capacity, n, priority, t) ==
    PreemptiveTriggerPut(
        [res EXCEPT !.put_queue =
            SortedAppend(@, [proc |-> n, priority |-> priority, time |-> t])],
        capacity)

\* leaving the with block: the request is cancelled if it still waits, and
\* released (a request that is not a user is ignored)
ReleaseRequest(res, n) ==
    [users |-> SelectSeq(res.users, LAMBDA x : x.proc # n),
     put_queue |-> SelectSeq(res.put_queue, LAMBDA x : x.proc # n)]

(***************************************************************************)
(* src/equipment_availability_sim.py                                       *)
(***************************************************************************)
NUM_MACHINES == 3         \* machines of the model (12 in the source)
MaxBreaks == 3            \* breakdowns drawn in a run of the model
EquipmentTicks == 14      \* horizon of a run of the model, in parts made

NUM_REPAIRMEN == 2
JOB_DURATION == 60
PART_DURATION == 5        \* done_in of a new part

EQUIPMENT_SIM_TIME == EquipmentTicks * PART_DURATION
Machines == 1..NUM_MACHINES
OtherJobs == 0            \* the other_jobs process, as a process name

\* values random.expovariate may return: time_to_failure(), REPAIR_TIME()
FailureTimes == {2, 5}
RepairTimes == {3, 61}
NoFailure == EQUIPMENT_SIM_TIME + 1

NoMachine ==
    [pc |-> "none", broken |-> FALSE, done_in |-> 0, start |-> 0,
     start_break |-> 0, uptime |-> 0, downtime |-> 0]

EquipmentIdle ==
    /\ repairman = NoResource
    /\ machines = [i \in Machines |-> NoMachine]
    /\ other_job = [pc |-> "none", done_in |-> 0, start |-> 0]
    /\ breaks = 0

EquipmentStart ==
    /\ repairman = NoResource
    /\ machines = [i \in Machines |-> [NoMachine EXCEPT !.pc = "init"]]
    /\ other_job = [pc |-> "init", done_in |-> 0, start |-> 0]
    /\ breaks = 0

\* Machine.__init__ starts working and break_machine for each machine; then
\* other_jobs is started
EquipmentQueue ==
    [i \in 1..(2 * NUM_MACHINES) |->
        Event(0, URGENT,
              IF i % 2 = 1 THEN "Machine.working" ELSE "Machine.break_machine",
              (i + 1) \div 2, 0, 0)]
    \o <<Event(0, URGENT, "other_jobs", OtherJobs, 0, 0)>>

EquipmentResumes(k) ==
    /\ queue # <<>>
    /\ Head(queue).t < EQUIPMENT_SIM_TIME
    /\ Head(queue).k = k

ProcessKind(n) == IF n = OtherJobs THEN "other_jobs" ELSE "Machine.working"

\* every process asking with the priority of a repair
RequestPriorityEqual(n) == 1

\* the priority a process asks the repairman with: repairs before other jobs
RequestPriority(n) == IF n = OtherJobs THEN 2 ELSE 1

\* the events a trigger of the repairman schedules: first the interrupt of
\* the preempted user, then the grant
ScheduleRepairman(q, t, g) ==
    LET q1 == IF g.interrupted = <<>> THEN q
              ELSE Schedule(q, Event(t, URGENT, "Interruption", g.interrupted[1], 0, 0))
    IN  IF g.granted = <<>> THEN q1
        ELSE Schedule(q1, Event(t, NORMAL, ProcessKind(g.granted[1]), g.granted[1], 0, 0))

\* an interrupted process no longer waits for the event it had yielded
Unwait(q, k, n) == SelectSeq(q, LAMBDA e : ~(e.k = k /\ e.u = n))

\* Machine.working starts a part, or goes on with one after a repair
ResumeWork(m, t) ==
    IF m.done_in > 0
    THEN [m EXCEPT !.pc = "working", !.start = t]
    ELSE [m EXCEPT !.pc = "working", !.start = t, !.done_in = PART_DURATION,
                   !.uptime = @ + 5]

\* Machine.working: resumed by its timeout or by the grant of a repairman
MachineWorkingStep ==
    /\ EquipmentResumes("Machine.working")
    /\ LET e == Head(queue)
           i == e.u
           m == machines[i]
           q == Tail(queue)
       IN  /\ now' = e.t
           /\ CASE m.pc = "init" ->
                    /\ machines' = [machines EXCEPT ![i] =
                           [m EXCEPT !.pc = "working", !.done_in = PART_DURATION,
                                     !.start = e.t]]
                    /\ queue' = Schedule(q,
                           Event(e.t + PART_DURATION, NORMAL, "Machine.working", i, 0, 0))
                    /\ UNCHANGED repairman
                [] m.pc = "working" ->
                    \* the part is done: start the next one
                    LET m1 == ResumeWork([m EXCEPT !.done_in = 0], e.t)
                    IN  /\ machines' = [machines EXCEPT ![i] = m1]
                        /\ queue' = Schedule(q,
                               Event(e.t + m1.done_in, NORMAL, "Machine.working", i, 0, 0))
                        /\ UNCHANGED repairman
                [] m.pc = "wait_repairman" ->
                    \* the repairman is granted: the repair takes REPAIR_TIME()
                    \E repair \in RepairTimes :
                        /\ machines' = [machines EXCEPT ![i].pc = "repairing"]
                        /\ queue' = Schedule(q,
                               Event(e.t + repair, NORMAL, "Machine.working", i, 0, 0))
                        /\ UNCHANGED repairman
                [] m.pc = "repairing" ->
                    \* repaired: release the repairman and go on working
                    LET m1 == ResumeWork([m EXCEPT !.broken = FALSE,
                                    !.downtime = @ + (e.t - m.start_break)], e.t)
                    IN  /\ machines' = [machines EXCEPT ![i] = m1]
                        /\ repairman' = ReleaseRequest(repairman, i)
                        /\ queue' = Schedule(
                               Schedule(q, Event(e.t, NORMAL, "repairman.Release", 0, 0, 0)),
                               Event(e.t + m1.done_in, NORMAL, "Machine.working", i, 0, 0))
    /\ UNCHANGED <<other_job, breaks>>
    /\ UNCHANGED outsideEquipment

\* Machine.break_machine: interrupt the working process if the machine is
\* not broken, then wait for the next failure
MachineBreakStep ==
    /\ EquipmentResumes("Machine.break_machine")
    /\ LET e == Head(queue)
           i == e.u
           first == (e.a = 0)
           interrupts == ~first /\ ~machines[i].broken
           q == IF interrupts
                THEN Schedule(Tail(queue), Event(e.t, URGENT, "Interruption", i, 0, 0))
                ELSE Tail(queue)
       IN  /\ now' = e.t
           /\ \E ttf \in FailureTimes \cup {NoFailure} :
                /\ ttf # NoFailure => breaks < MaxBreaks
                /\ breaks' = IF ttf # NoFailure THEN breaks + 1 ELSE breaks
                /\ queue' = Schedule(q,
                       Event(e.t + ttf, NORMAL, "Machine.break_machine", i, 1, 0))
    /\ UNCHANGED <<repairman, machines, other_job>>
    /\ UNCHANGED outsideEquipment

\* other_jobs: resumed by the grant of a repairman or by its timeout
OtherJobsStep ==
    /\ EquipmentResumes("other_jobs")
    /\ LET e == Head(queue)
           q == Tail(queue)
           g == PriorityRequest(repairman, NUM_REPAIRMEN, OtherJobs,
                                RequestPriority(OtherJobs), e.t)
           released == ReleaseRequest(repairman, OtherJobs)
           g2 == PriorityRequest(released, NUM_REPAIRMEN, OtherJobs,
                                 RequestPriority(OtherJobs), e.t)
       IN  /\ now' = e.t
           /\ CASE other_job.pc = "init" ->
                    /\ other_job' = [pc |-> "wait_repairman", done_in |-> JOB_DURATION,
                                     start |-> 0]
                    /\ repairman' = g.res
                    /\ queue' = ScheduleRepairman(q, e.t, g)
                [] other_job.pc = "wait_repairman" ->
                    /\ other_job' = [other_job EXCEPT !.pc = "working", !.start = e.t]
                    /\ queue' = Schedule(q,
                           Event(e.t + other_job.done_in, NORMAL, "other_jobs", OtherJobs, 0, 0))
                    /\ UNCHANGED repairman
                [] other_job.pc = "working" ->
                    \* the job is done: release, and request for a new job
                    /\ other_job' = [pc |-> "wait_repairman", done_in |-> JOB_DURATION,
                                     start |-> other_job.start]
                    /\ repairman' = g2.res
                    /\ queue' = ScheduleRepairman(
                           Schedule(q, Event(e.t, NORMAL, "repairman.Release", 0, 0, 0)),
                           e.t, g2)
    /\ UNCHANGED <<machines, breaks>>
    /\ UNCHANGED outsideEquipment

\* RemainingWork that forgets the work done since the last start
RemainingWorkRestart(done_in, start, t) == done_in

\* the time of a job that is left when it is interrupted at time t
RemainingWork(done_in, start, t) == done_in - (t - start)

\* an Interrupt is thrown into a process
InterruptionStep ==
    /\ EquipmentResumes("Interruption")
    /\ LET e == Head(queue)
           n == e.u
           q == Unwait(Tail(queue), ProcessKind(n), n)
       IN  /\ now' = e.t
           /\ IF n = OtherJobs
              THEN \* preempted: keep the remaining time, release, request again
                   LET left == RemainingWork(other_job.done_in, other_job.start, e.t)
                       released == ReleaseRequest(repairman, OtherJobs)
                       g == PriorityRequest(released, NUM_REPAIRMEN, OtherJobs,
                                 RequestPriority(OtherJobs), e.t)
                   IN  /\ IF other_job.pc = "working"
                          THEN /\ other_job' = [other_job EXCEPT !.pc = "wait_repairman",
                                      !.done_in = IF left > 0 THEN left ELSE JOB_DURATION]
                               /\ repairman' = g.res
                               /\ queue' = ScheduleRepairman(
                                      Schedule(q, Event(e.t, NORMAL, "repairman.Release", 0, 0, 0)),
                                      e.t, g)
                          ELSE \* not caught outside the try: the run ends
                               /\ other_job' = [other_job EXCEPT !.pc = "crashed"]
                               /\ repairman' = repairman
                               /\ queue' = <<>>
                       /\ UNCHANGED machines
              ELSE \* a breakdown: request a repairman
                   LET m == machines[n]
                       g == PriorityRequest(repairman, NUM_REPAIRMEN, n, RequestPriority(n), e.t)
                   IN  /\ IF m.pc = "working"
                          THEN /\ machines' = [machines EXCEPT ![n] =
                                      [m EXCEPT !.pc = "wait_repairman", !.broken = TRUE,
                                                !.start_break = e.t,
                                                !.done_in = RemainingWork(m.done_in, m.start, e.t)]]
                               /\ repairman' = g.res
                               /\ queue' = ScheduleRepairman(q, e.t, g)
                          ELSE \* not caught outside the try: the run ends
                               /\ machines' = [machines EXCEPT ![n].pc = "crashed"]
                               /\ repairman' = repairman
                               /\ queue' = <<>>
                       /\ UNCHANGED other_job
    /\ UNCHANGED breaks
    /\ UNCHANGED outsideEquipment

\* a release of the repairman is processed: the first waiting request is served
RepairmanReleaseStep ==
    /\ EquipmentResumes("repairman.Release")
    /\ LET e == Head(queue)
           g == PreemptiveTriggerPut(repairman, NUM_REPAIRMEN)
       IN  /\ now' = e.t
           /\ repairman' = g.res
           /\ queue' = ScheduleRepairman(Tail(queue), e.t, g)
    /\ UNCHANGED <<machines, other_job, breaks>>
    /\ UNCHANGED outsideEquipment

(***************************************************************************)
(* src/termini_simulation_animation.py.  Times are in 1/120 s, so that the *)
(* fractions of the run times are whole numbers.  The canvas and the clock *)
(* process, which only draw, are left out.                                 *)
(***************************************************************************)
TerminiTrains == 5           \* trains setup starts in the model

NUM_PLATFORMS == 3           \* capacity of tr.platform
TERMINI_SIM_TIME == 12000000 \* SIM_TIME = 100000 s

\* the resources of the Termini object, in the order __init__ creates them
TrPlatform == 1              \* tr.platform
TrRunOutAuthority == 2       \* tr.run_out_authority
TrRunInAuthority == 3        \* tr.run_in_authority
TrP1Outbound == 4            \* tr.p1_outbound
TrP2Outbound == 5            \* tr.p2_outbound

TerminiCapacity == <<NUM_PLATFORMS, 1, 1, 1, 1>>

\* the platforms that have an occupancy flag
PlatformNumbers == {1, 2, 4}

\* values arrival_interval() and dwell() may draw
ArrivalIntervals == {120, 18000}
DwellTimes == {2400, 24000}

\* the statements of the train process that act on the shared state:
\*   request   with tr.<res>.request() as request: ... yield request
\*   release   tr.<res>.release(request), with whatever request now names
\*   exit      the end of the with block of <res>: its own request is released
\*   timeout   yield env.timeout(d)
\*   dwell     yield env.process(tr.dwell(...))
\*   flag      platform_<k>_occupied = v
Req(res) == [op |-> "request", res |-> res, d |-> 0, k |-> 0, v |-> FALSE]
Rel(res) == [op |-> "release", res |-> res, d |-> 0, k |-> 0, v |-> FALSE]
Exit(res) == [op |-> "exit", res |-> res, d |-> 0, k |-> 0, v |-> FALSE]
Timeout(d) == [op |-> "timeout", res |-> 0, d |-> d, k |-> 0, v |-> FALSE]
Dwell == [op |-> "dwell", res |-> 0, d |-> 0, k |-> 0, v |-> FALSE]
Flag(k, v) == [op |-> "flag", res |-> 0, d |-> 0, k |-> k, v |-> v]

\* train: up to the grant of a platform slot
Arrive == <<Req(TrPlatform)>>

\* Platform1 without the with blocks: only the explicit releases
Platform1ExplicitReleasesOnly ==
    << Flag(1, TRUE),
       Req(TrRunInAuthority),
       Timeout(1596), Timeout(2004), Timeout(2004), Timeout(2004), Timeout(2004),
       Rel(TrRunInAuthority),
       Dwell,
       Req(TrRunOutAuthority), Req(TrP2Outbound), Req(TrP1Outbound),
       Timeout(2367), Timeout(2367), Timeout(2367), Timeout(2367),
       Rel(TrP1Outbound),
       Timeout(834), Timeout(834),
       Rel(TrP2Outbound),
       Rel(TrRunOutAuthority), Flag(1, FALSE),
       Rel(TrPlatform) >>

\* train: the branch of platform 1
Platform1 ==
    << Flag(1, TRUE),
       Req(TrRunInAuthority),
       Timeout(1596), Timeout(2004), Timeout(2004), Timeout(2004), Timeout(2004),
       Rel(TrRunInAuthority), Exit(TrRunInAuthority),
       Dwell,
       Req(TrRunOutAuthority), Req(TrP2Outbound), Req(TrP1Outbound),
       Timeout(2367), Timeout(2367), Timeout(2367), Timeout(2367),
       Rel(TrP1Outbound), Exit(TrP1Outbound),
       Timeout(834), Timeout(834),
       Rel(TrP2Outbound), Exit(TrP2Outbound),
       Rel(TrRunOutAuthority), Flag(1, FALSE), Exit(TrRunOutAuthority),
       Rel(TrPlatform), Exit(TrPlatform) >>

\* train: the branch of platform 2
Platform2 ==
    << Flag(2, TRUE),
       Req(TrRunInAuthority), Req(TrP1Outbound),
       Timeout(1524), Timeout(2668), Timeout(2668), Timeout(2668),
       Rel(TrP1Outbound), Exit(TrP1Outbound),
       Timeout(972),
       Rel(TrRunInAuthority), Exit(TrRunInAuthority),
       Dwell,
       Req(TrRunOutAuthority), Req(TrP2Outbound),
       Timeout(1660), Timeout(1660), Timeout(1660),
       Timeout(1308), Timeout(1308), Timeout(1464),
       Rel(TrP2Outbound), Exit(TrP2Outbound),
       Rel(TrRunOutAuthority), Flag(2, FALSE), Exit(TrRunOutAuthority),
       Rel(TrPlatform), Exit(TrPlatform) >>

\* train: the branch of platform 4
Platform4 ==
    << Flag(4, TRUE),
       Req(TrRunInAuthority), Req(TrP2Outbound), Req(TrP1Outbound),
       Timeout(1620), Timeout(2802), Timeout(2802),
       Rel(TrP1Outbound), Exit(TrP1Outbound),
       Timeout(252),
       Rel(TrP2Outbound), Exit(TrP2Outbound),
       Timeout(1860),
       Rel(TrRunInAuthority), Exit(TrRunInAuthority),
       Dwell,
       Req(TrRunOutAuthority),
       Timeout(1408), Timeout(1408), Timeout(1408), Timeout(1452),
       Rel(TrRunOutAuthority), Flag(4, FALSE), Exit(TrRunOutAuthority),
       Rel(TrPlatform), Exit(TrPlatform) >>

\* train: none of the three tests on the flags succeeds
NoPlatform == << Rel(TrPlatform), Exit(TrPlatform) >>

TrainScript(branch) ==
    CASE branch = "arrive" -> Arrive
      [] branch = "platform 1" -> Platform1
      [] branch = "platform 2" -> Platform2
      [] branch = "platform 4" -> Platform4
      [] OTHER -> NoPlatform

\* PlatformBranch taking platform 1 whatever its flag
PlatformBranchUnchecked(occupied) == "platform 1"

\* the if / elif chain on the occupancy flags
PlatformBranch(occupied) ==
    CASE occupied[1] = FALSE -> "platform 1"
      [] occupied[2] = FALSE -> "platform 2"
      [] occupied[4] = FALSE -> "platform 4"
      [] OTHER -> "no platform"

BranchPlatform(branch) ==
    CASE branch = "platform 1" -> 1
      [] branch = "platform 2" -> 2
      [] branch = "platform 4" -> 4
      [] OTHER -> 0

NoTerminiTrain ==
    [state |-> "none", branch |-> "arrive", pc |-> 1, request |-> 0]

TerminiIdle ==
    /\ termini = <<>>
    /\ platform_occupied = [k \in PlatformNumbers |-> FALSE]
    /\ termini_trains = [n \in 1..TerminiTrains |-> NoTerminiTrain]
    /\ termini_i = 0
    /\ ignored_releases = <<>>
    /\ headway_time = <<>>

TerminiStart ==
    /\ termini = [res \in 1..5 |-> NoResource]
    /\ platform_occupied = [k \in PlatformNumbers |-> FALSE]
    /\ termini_trains = [n \in 1..TerminiTrains |-> NoTerminiTrain]
    /\ termini_i = 0
    /\ ignored_releases = <<>>
    /\ headway_time = <<>>

TerminiResumes(k) ==
    /\ queue # <<>>
    /\ Head(queue).t < TERMINI_SIM_TIME
    /\ Head(queue).k = k

TerminiTrainEvent(t, n) == Event(t, NORMAL, "train", n, 0, 0)
TerminiReleaseEvent(t, res) == Event(t, NORMAL, "termini.Release", 0, res, 0)

\* the events of the requests a trigger granted
RECURSIVE ScheduleTerminiTrains(_, _, _)
ScheduleTerminiTrains(q, t, granted) ==
    IF granted = <<>> THEN q
    ELSE ScheduleTerminiTrains(Schedule(q, TerminiTrainEvent(t, Head(granted))),
                               t, Tail(granted))

\* the shared state a resumption of a train works on
TerminiState(q) ==
    [ termini |-> termini, occupied |-> platform_occupied,
      trains |-> termini_trains, ignored |-> ignored_releases,
      time |-> headway_time, queue |-> q ]

\* tr.<res>.request() by train n: the name request is bound to the new request
TerminiRequest(S, n, res, t) ==
    LET g == Request(S.termini[res], TerminiCapacity[res], n)
    IN  [S EXCEPT !.termini[res] = g.res,
                  !.trains[n].request = res,
                  !.queue = ScheduleTerminiTrains(@, t, g.granted)]

\* whether train n holds a unit of res through its request on resource req
Holds(S, n, res, req) ==
    /\ req = res
    /\ \E j \in 1..Len(S.termini[res].users) : S.termini[res].users[j] = n

\* tr.<res>.release(r) by train n, where r is its request on resource req:
\* Resource._do_get removes r from the users of res if it is there and
\* succeeds in either case; a release that removed nothing is logged here.
TerminiRelease(S, n, res, req, explicit, t) ==
    LET S1 == [S EXCEPT !.queue = Schedule(@, TerminiReleaseEvent(t, res))]
    IN  IF Holds(S, n, res, req)
        THEN [S1 EXCEPT !.termini[res] = Release(@, n)]
        ELSE [S1 EXCEPT !.ignored = Append(@,
                 [train |-> n, res |-> res, request |-> req, explicit |-> explicit])]

\* train n runs from its next statement up to and including its next yield
\* (the state is bound to S as a value, so that nested calls evaluate it once)
RECURSIVE TerminiExec(_, _, _)
TerminiExec(state, n, t) ==
    CHOOSE result \in
        { LET tn == S.trains[n]
              script == TrainScript(tn.branch)
          IN  IF tn.pc > Len(script)
              THEN IF tn.branch = "arrive"
                   THEN TerminiExec([S EXCEPT !.trains[n].branch = PlatformBranch(S.occupied),
                                              !.trains[n].pc = 1], n, t)
                   ELSE [S EXCEPT !.trains[n].state = "done", !.time = Append(@, t)]
              ELSE LET ins == script[tn.pc]
                       S1 == [S EXCEPT !.trains[n].pc = @ + 1]
                   IN  CASE ins.op = "flag" ->
                              TerminiExec([S1 EXCEPT !.occupied[ins.k] = ins.v], n, t)
                         [] ins.op = "release" ->
                              TerminiExec(TerminiRelease(S1, n, ins.res, tn.request, TRUE, t), n, t)
                         [] ins.op = "exit" ->
                              TerminiExec(TerminiRelease(S1, n, ins.res, ins.res, FALSE, t), n, t)
                         [] ins.op = "request" -> TerminiRequest(S1, n, ins.res, t)
                         [] ins.op = "timeout" ->
                              [S1 EXCEPT !.queue = Schedule(@, TerminiTrainEvent(t + ins.d, n))]
                         [] ins.op = "dwell" ->
                              [S1 EXCEPT !.queue = Schedule(@, Event(t, URGENT, "dwell", n, 0, 0))]
          : S \in {state} } : TRUE

\* setup: start the first train, then one more after every arrival interval
TerminiSetupStep ==
    /\ TerminiResumes("setup")
    /\ LET e == Head(queue)
           q1 == Schedule(Tail(queue), Event(e.t, URGENT, "train", termini_i + 1, 0, 0))
       IN  /\ now' = e.t
           /\ termini_i' = termini_i + 1
           /\ termini_trains' = [termini_trains EXCEPT ![termini_i + 1].state = "run"]
           /\ IF termini_i + 1 < TerminiTrains
              THEN \E a \in ArrivalIntervals :
                       queue' = Schedule(q1, Event(e.t + a, NORMAL, "setup", 0, 0, 0))
              ELSE queue' = q1
    /\ UNCHANGED <<termini, platform_occupied, ignored_releases, headway_time>>
    /\ UNCHANGED outsideTermini

\* train: one resumption of train n
TerminiTrainStep ==
    /\ TerminiResumes("train")
    /\ LET e == Head(queue)
           S == TerminiExec(TerminiState(Tail(queue)), e.u, e.t)
       IN  /\ now' = e.t
           /\ termini' = S.termini
           /\ platform_occupied' = S.occupied
           /\ termini_trains' = S.trains
           /\ ignored_releases' = S.ignored
           /\ headway_time' = S.time
           /\ queue' = S.queue
    /\ UNCHANGED termini_i
    /\ UNCHANGED outsideTermini

\* Termini.dwell, started by train n: it waits the dwell time it draws, and
\* its end resumes the train
TerminiDwellStep ==
    /\ TerminiResumes("dwell")
    /\ LET e == Head(queue)
       IN  /\ now' = e.t
           /\ IF e.p = URGENT
              THEN \E d \in DwellTimes :
                       queue' = Schedule(Tail(queue), Event(e.t + d, NORMAL, "dwell", e.u, 0, 0))
              ELSE queue' = Schedule(Tail(queue), TerminiTrainEvent(e.t, e.u))
    /\ UNCHANGED terminiVars
    /\ UNCHANGED outsideTermini

\* a release event is processed: the resource serves its waiting requests
TerminiReleaseStep ==
    /\ TerminiResumes("termini.Release")
    /\ LET e == Head(queue)
           g == TriggerPut(termini[e.a], TerminiCapacity[e.a])
       IN  /\ now' = e.t
           /\ termini' = [termini EXCEPT ![e.a] = g.res]
           /\ queue' = ScheduleTerminiTrains(Tail(queue), e.t, g.granted)
    /\ UNCHANGED <<platform_occupied, termini_trains, termini_i, ignored_releases,
                   headway_time>>
    /\ UNCHANGED outsideTermini

(***************************************************************************)
(* src/network_map_animation_simpy.py.  Times are in 1/100 s: at 30 km/h a *)
(* metre takes 0.12 s.                                                     *)
(***************************************************************************)
TruckNodes == 3              \* nodes of the graph

EdgeLengths == {0, 40, 75}   \* metres; an edge without a length counts as 0

\* paths between two different nodes that pass no node twice
TruckPaths ==
    UNION { { p \in [1..l -> 1..TruckNodes] :
                \A i, j \in 1..l : i # j => p[i] # p[j] } : l \in 2..TruckNodes }

TruckConfigs ==
    UNION { { [path |-> p, lengths |-> w] : w \in [1..(Len(p) - 1) -> EdgeLengths] }
            : p \in TruckPaths }

\* distance_m / speed_m_s for speed_km_per_h = 30
TravelTime(distance_m) == distance_m * 12

\* NodeReached recording the node the leg started from
NodeLeft(path, i) == path[i + 1]

\* the node reached after leg i of the path (v = path[i + 1], i from 0)
NodeReached(path, i) == path[i + 2]

TruckIdle ==
    /\ truck_cfg = CHOOSE c \in TruckConfigs : TRUE
    /\ truck_i = 0
    /\ truck_pc = "none"
    /\ truck_positions = <<>>

TruckStart ==
    /\ truck_cfg \in TruckConfigs
    /\ truck_i = 0
    /\ truck_pc = "start"
    /\ truck_positions = <<>>

\* drive_truck: one resumption.  env.run() has no horizon.
TruckStep ==
    /\ queue # <<>>
    /\ Head(queue).k = "drive_truck"
    /\ LET e == Head(queue)
           path == truck_cfg.path
           i == IF truck_pc = "start" THEN 0 ELSE truck_i + 1
           recorded == IF truck_pc = "start"
                       THEN <<[time |-> e.t, node |-> path[1]]>>
                       ELSE Append(truck_positions,
                                   [time |-> e.t, node |-> NodeReached(path, truck_i)])
       IN  /\ now' = e.t
           /\ truck_positions' = recorded
           /\ IF i < Len(path) - 1
              THEN /\ truck_i' = i
                   /\ truck_pc' = "driving"
                   /\ queue' = Schedule(Tail(queue),
                          Event(e.t + TravelTime(truck_cfg.lengths[i + 1]), NORMAL,
                                "drive_truck", 0, 0, 0))
              ELSE \* the generator returns: the process event is scheduled
                   /\ truck_i' = truck_i
                   /\ truck_pc' = "arrived"
                   /\ queue' = Schedule(Tail(queue),
                          Event(e.t, NORMAL, "drive_truck.end", 0, 0, 0))
    /\ UNCHANGED truck_cfg
    /\ UNCHANGED outsideTruck

\* the event of the ended process is popped: nothing waits for it
TruckEndStep ==
    /\ queue # <<>>
    /\ Head(queue).k = "drive_truck.end"
    /\ now' = Head(queue).t
    /\ queue' = Tail(queue)
    /\ truck_pc' = "done"
    /\ UNCHANGED <<truck_cfg, truck_i, truck_positions>>
    /\ UNCHANGED outsideTruck

(***************************************************************************)
(* Specifications: one run of one program.                                 *)
(***************************************************************************)
\* a run of the depot model
Init ==
    /\ now = 0
    /\ DepotStart
    /\ queue = InitialQueue
    /\ WaterlooIdle
    /\ EquipmentIdle
    /\ TerminiIdle
    /\ TruckIdle

Next ==
    \/ UpdaterStep
    \/ ActivityStep
    \/ ToleranceStep
    \/ LookaheadStep
    \/ RequestAdmissionStep
    \/ RequestStartStep
    \/ RequestExamEndStep
    \/ RequestCompleteStep

Spec == Init /\ [][Next]_vars

\* the runs with a flat timetable of one train: the scenario and road
\* contention configurations, and the general ones with that timetable
FlatTimetableConfigs ==
    {c \in Configs : c \in GeneralConfigs => c.timetable = [i \in 1..TimetableLen |-> 1]}

InitFlat == Init /\ cfg \in FlatTimetableConfigs

\* env.run pops the next event as long as one is due before SIM_TIME
SpecFair == InitFlat /\ [][Next]_vars /\ WF_vars(Next)

\* the depot variables of a run of another program
DepotIdle ==
    /\ cfg = CHOOSE c \in Configs : TRUE
    /\ updater_pc = "none"
    /\ timetable_requirement = 0
    /\ available_to_maintain = 0
    /\ injection = FALSE
    /\ trains_in_depot = 0
    /\ trains_available = 0
    /\ staff = 0
    /\ live_maintenance_requests = 0
    /\ maintenance_requests = <<>>
    /\ maintenance_completes = <<>>
    /\ in_maintenance = [u \in Units |-> FALSE]
    /\ act = [u \in Units |-> [a \in Activities |-> [pc |-> "none", mro |-> 0, warned |-> FALSE]]]
    /\ mro = [r \in Requests |-> NoRequest]
    /\ nreq = 0
    /\ items = <<>>
    /\ get_queue = <<>>
    /\ ACTIVE_MAINTENANCE = [u \in Units |-> [a \in Activities |-> <<>>]]

\* a run of london_waterloo.py
WaterlooInit ==
    /\ now = 0
    /\ queue = <<Event(0, URGENT, "source", 0, 0, 0)>>
    /\ DepotIdle
    /\ WaterlooStart
    /\ EquipmentIdle
    /\ TerminiIdle
    /\ TruckIdle

WaterlooNext ==
    \/ WaterlooSourceStep
    \/ WaterlooTrainStep
    \/ WaterlooReleaseStep

SpecWaterloo == WaterlooInit /\ [][WaterlooNext]_vars

\* a run of equipment_availability_sim.py
EquipmentInit ==
    /\ now = 0
    /\ queue = EquipmentQueue
    /\ DepotIdle
    /\ WaterlooIdle
    /\ EquipmentStart
    /\ TerminiIdle
    /\ TruckIdle

EquipmentNext ==
    \/ MachineWorkingStep
    \/ MachineBreakStep
    \/ OtherJobsStep
    \/ InterruptionStep
    \/ RepairmanReleaseStep

SpecEquipment == EquipmentInit /\ [][EquipmentNext]_vars

(***************************************************************************)
(* src/machine_shop_animation/machine_shop_animation.py.  SimMachine's     *)
(* _working and _break_machine and the shop's _other_jobs are the          *)
(* processes of equipment_availability_sim.py, statement by statement;     *)
(* the shop adds force_break, which the window calls for a click on a      *)
(* machine.  The drawing is left out.                                      *)
(***************************************************************************)
MaxClicks == 2            \* clicks on one machine between two steps of the kernel
MaxForcedBreaks == 1      \* forced breakdowns of a run of the model

\* process.interrupt(), n times: each call schedules an Interruption
RECURSIVE ForcedInterrupts(_, _, _, _)
ForcedInterrupts(q, t, i, n) ==
    IF n = 0 THEN q
    ELSE ForcedInterrupts(Schedule(q, Event(t, URGENT, "Interruption", i, 0, 0)),
                          t, i, n - 1)

\* SimMachine.force_break, called by _check_machine_click for every click on
\* a machine that is drawn as working.  The clicks are handled between two
\* calls of step, or while the shop is paused: env.run(until=target) has
\* processed every event before target and none at target, and neither
\* broken nor the drawn state changes from one click to the next.  (The
\* forced breakdowns of a run of the model come before its drawn ones.)
ForceBreakStep ==
    /\ queue # <<>>
    /\ Head(queue).t > now
    /\ Head(queue).t < EQUIPMENT_SIM_TIME
    /\ breaks < MaxForcedBreaks
    /\ \E i \in Machines, clicks \in 1..MaxClicks, target \in (now + 1)..Head(queue).t :
        /\ machines[i].pc = "working"
        /\ ~machines[i].broken
        /\ now' = target
        /\ queue' = ForcedInterrupts(queue, target, i, clicks)
    /\ breaks' = breaks + 1
    /\ UNCHANGED <<repairman, machines, other_job>>
    /\ UNCHANGED outsideEquipment

MachineShopNext ==
    \/ EquipmentNext
    \/ ForceBreakStep

\* a run of the machine shop with clicks on its machines
SpecMachineShop == EquipmentInit /\ [][MachineShopNext]_vars

\* a run of termini_simulation_animation.py
TerminiInit ==
    /\ now = 0
    /\ queue = <<Event(0, URGENT, "setup", 0, 0, 0)>>
    /\ DepotIdle
    /\ WaterlooIdle
    /\ EquipmentIdle
    /\ TerminiStart
    /\ TruckIdle

TerminiNext ==
    \/ TerminiSetupStep
    \/ TerminiTrainStep
    \/ TerminiDwellStep
    \/ TerminiReleaseStep

SpecTermini == TerminiInit /\ [][TerminiNext]_vars

\* env.run pops the next event as long as one is due before SIM_TIME
SpecTerminiFair == SpecTermini /\ WF_vars(TerminiNext)

\* a run of network_map_animation_simpy.py
TruckInit ==
    /\ now = 0
    /\ queue = <<Event(0, URGENT, "drive_truck", 0, 0, 0)>>
    /\ DepotIdle
    /\ WaterlooIdle
    /\ EquipmentIdle
    /\ TerminiIdle
    /\ TruckStart

TruckNext ==
    \/ TruckStep
    \/ TruckEndStep

SpecTruck == TruckInit /\ [][TruckNext]_vars

\* env.run() keeps popping events while there are any
SpecTruckFair == SpecTruck /\ WF_vars(TruckNext)

\* a run of any of the programs that share resources among processes
ResourcesInit == Init \/ WaterlooInit \/ EquipmentInit

ResourcesNext == Next \/ WaterlooNext \/ EquipmentNext

SpecResources == ResourcesInit /\ [][ResourcesNext]_vars

(***************************************************************************)
(* Properties of the depot model.                                          *)
(***************************************************************************)
\* the request whose admission condition the next step evaluates
Evaluates(r) ==
    /\ Resumes("maintenance_request")
    /\ Head(queue).r = r
    /\ mro[r].request_pc \in {"init", "await"}

\* the requests that are in the depot: admitted, exam not yet finished
InDepot == {r \in Requests : mro[r].request_pc \in {"getroad", "granted", "blackout", "exam"}}

\* the requests in service: staff reserved, exam not yet finished
InService == {r \in Requests : mro[r].request_pc = "exam"}

ToleranceDeadline(r) == mro[r].request_time + cfg.tolerance[mro[r].exam_name]

\* C1: a request admitted while its tolerance_exceeded flag is false was
\* admitted in a state where the injection flag is false, occupancy is below
\* its max future capacity (fleet_size minus its stored maximum future
\* timetable requirement), occupancy is below the current available capacity
\* and its train is not in maintenance.
C1_NonOverrideAdmission ==
    [][\A r \in Requests :
         (Evaluates(r) /\ mro'[r].can_start_maintenance
                       /\ mro[r].tolerance_exceeded = FALSE)
         => /\ injection = FALSE
            /\ trains_in_depot < mro[r].maximum_future_trains_to_maintain
            /\ mro[r].maximum_future_trains_to_maintain =
                   cfg.fleet_size - mro[r].maximum_future_timetable_requirement
            /\ trains_in_depot < available_to_maintain
            /\ available_to_maintain = cfg.fleet_size - timetable_requirement
            /\ in_maintenance[mro[r].train] = FALSE]_vars

C1_Witness ==
    \E r \in Requests :
        /\ mro[r].can_start_maintenance
        /\ mro[r].time_train_seized = now
        /\ mro[r].request_pc \in {"getroad", "granted"}
        /\ mro[r].tolerance_exceeded = FALSE

\* C2 (as stated): a request whose tolerance_exceeded flag is true is admitted
\* at its next admission evaluation, whatever the injection flag, the
\* occupancy and the in_maintenance flag of its train.
C2_OverrideUnconditional ==
    [][\A r \in Requests :
         (Evaluates(r) /\ mro[r].tolerance_exceeded = TRUE)
         => mro'[r].can_start_maintenance]_vars

\* C2 (amended): a request whose tolerance_exceeded flag is true is admitted
\* at an admission evaluation exactly if the in_maintenance flag of its train
\* is false there, whatever the injection flag and the occupancy.
C2_OverrideUnlessInMaintenance ==
    [][\A r \in Requests :
         (Evaluates(r) /\ mro[r].tolerance_exceeded = TRUE)
         => /\ mro'[r].can_start_maintenance = ~in_maintenance[mro[r].train]
            /\ mro'[r].can_start_maintenance =>
                   /\ trains_in_depot' = trains_in_depot + 1
                   /\ in_maintenance'[mro[r].train]]_vars

\* a request just admitted with its flag set although occupancy was not below
\* its max future capacity
C2_Witness ==
    \E r \in Requests :
        /\ mro[r].request_pc \in {"getroad", "granted"}
        /\ mro[r].time_train_seized = now
        /\ mro[r].tolerance_exceeded = TRUE
        /\ mro[r].trains_in_depot_start >= mro[r].maximum_future_trains_to_maintain

\* C3: a completion record whose start_of_maintenance is later than
\* request_time + tolerance carries tolerance_exceeded = true.
C3_LateStartFlagged ==
    \A i \in 1..Len(maintenance_completes) :
        LET c == maintenance_completes[i]
        IN  c.start_of_maintenance > ToleranceDeadline(c.mro)
            => c.tolerance_exceeded = TRUE

C3_Witness ==
    \E i \in 1..Len(maintenance_completes) :
        LET c == maintenance_completes[i]
        IN  /\ c.start_of_maintenance > ToleranceDeadline(c.mro)
            /\ c.time_train_seized < ToleranceDeadline(c.mro)
            /\ c.tolerance_exceeded = TRUE

\* the requests that hold road x
RoadHolders(x) ==
    {r \in Requests : mro[r].request_pc \in {"granted", "blackout", "exam"} /\ mro[r].req = x}

\* the trains past the grant of a resource and before its release
PlatformHolders ==
    {n \in 1..WaterlooTrains : trains[n].pc \in
        {"wait_run_in", "running_in", "boarding", "wait_run_out", "running_out"}}
RunInHolders == {n \in 1..WaterlooTrains : trains[n].pc = "running_in"}
RunOutHolders == {n \in 1..WaterlooTrains : trains[n].pc = "running_out"}

\* the processes at work with a repairman
RepairmanHolders ==
    {i \in Machines : machines[i].pc = "repairing"}
    \cup (IF other_job.pc = "working" THEN {OtherJobs} ELSE {})

\* C4: no resource has more holders than its capacity: a road is held by at
\* most one request (and is not in the store while held), at most 24 trains
\* hold a platform, at most 3 the run-in and 3 the run-out authority, and at
\* most NUM_REPAIRMEN processes hold a repairman.
C4_HoldersWithinCapacity ==
    /\ \A x \in Roads :
          /\ Cardinality(RoadHolders(x)) <= 1
          /\ RoadHolders(x) # {} => \A i \in 1..Len(items) : items[i] # x
    /\ Len(waterloo_platforms.users) <= PLATFORMS
    /\ Cardinality(PlatformHolders) <= PLATFORMS
    /\ Len(run_in_authority.users) <= RUN_IN
    /\ Cardinality(RunInHolders) <= RUN_IN
    /\ Len(run_out_authority.users) <= RUN_OUT
    /\ Cardinality(RunOutHolders) <= RUN_OUT
    /\ Len(repairman.users) <= NUM_REPAIRMEN
    /\ Cardinality(RepairmanHolders) <= NUM_REPAIRMEN

\* every platform is taken and a train waits for one
C4_Witness ==
    /\ Cardinality(PlatformHolders) = PLATFORMS
    /\ waterloo_platforms.put_queue # <<>>
    /\ Cardinality(RunInHolders) = RUN_IN

\* C5: no request starts its exam in a state where the injection flag is
\* true; a request that holds a road and is resumed while the flag is true
\* reserves no staff and waits one more tick.
C5_NoStartDuringInjection ==
    [][\A r \in Requests :
         /\ (mro[r].request_pc # "exam" /\ mro'[r].request_pc = "exam")
                => (injection = FALSE /\ injection' = FALSE)
         /\ ( /\ Resumes("maintenance_request")
              /\ Head(queue).r = r
              /\ mro[r].request_pc \in {"granted", "blackout"}
              /\ injection = TRUE )
                => /\ mro'[r].request_pc = "blackout"
                   /\ staff' = staff
                   /\ \E i \in 1..Len(queue') :
                         /\ queue'[i].k = "maintenance_request"
                         /\ queue'[i].r = r
                         /\ queue'[i].t = now' + SubTicks]_vars

C5_Witness ==
    \E r \in Requests :
        /\ mro[r].request_pc = "blackout"
        /\ mro[r].req \in Roads
        /\ injection = TRUE

\* the maximum of the timetable over exam_length consecutive cyclic ticks
\* starting at the tick of time t
WindowMax(t, exam_length) ==
    LET tt == cfg.timetable
        S == {tt[(((t \div SubTicks) + i) % Len(tt)) + 1] : i \in 0..(exam_length - 1)}
    IN  CHOOSE m \in S : \A x \in S : x <= m

\* C6: each pass of the lookahead stores, as maximum future timetable
\* requirement, the maximum of the timetable over the exam_length cyclic
\* ticks from now, and as max future capacity fleet_size minus that maximum.
C6_LookaheadIsWindowMax ==
    [][\A r \in Requests :
         ( /\ Resumes("timetable_lookahead")
           /\ Head(queue).r = r
           /\ mro[r].can_start_maintenance = FALSE )
         => LET m == WindowMax(now', cfg.exam_length[mro[r].exam_name])
            IN  /\ mro'[r].maximum_future_timetable_requirement = m
                /\ mro'[r].maximum_future_trains_to_maintain = cfg.fleet_size - m]_vars

\* C7: occupancy is its initial value plus the number of requests admitted
\* whose exam has not finished.
C7_OccupancyCountsAdmitted ==
    trains_in_depot = cfg.trains_in_depot + Cardinality(InDepot)

C7_Witness ==
    /\ \E r \in Requests : mro[r].request_pc \in {"putting", "complete"}
    /\ \E r \in Requests : mro[r].request_pc = "getroad"

RECURSIVE StaffOf(_)
StaffOf(S) ==
    IF S = {} THEN 0
    ELSE LET r == CHOOSE x \in S : TRUE
         IN  staff_requirement[mro[r].exam_name] + StaffOf(S \ {r})

\* C8: staff in use is the sum of the staff requirements of the requests in
\* service; it is never negative and is zero when no request is in service.
C8_StaffIsSumInService ==
    /\ staff = StaffOf(InService)
    /\ staff >= 0
    /\ (InService = {} => staff = 0)

C8_Witness ==
    /\ staff = 0
    /\ Len(maintenance_completes) >= 2
    /\ \E i \in 1..Len(maintenance_completes) :
           maintenance_completes[i].exam_name # maintenance_completes[1].exam_name

\* C9: a tolerance_exceeded flag that is true stays true.
C9_FlagOneWay ==
    [][\A r \in Requests :
         mro[r].tolerance_exceeded = TRUE => mro'[r].tolerance_exceeded = TRUE]_vars

C9_Witness ==
    \E r \in Requests :
        /\ mro[r].tolerance_exceeded = TRUE
        /\ mro[r].maintenance_complete = TRUE
        /\ mro[r].tolerance_exceeded_rec = FALSE

\* C10: the flag of a request is false before request_time + tolerance, true
\* after it, and is set in a step taken at exactly that time, admitted or not.
C10_FlagSetAtDeadline ==
    [][\A r \in Requests :
         /\ mro'[r].exists =>
               /\ now' < ToleranceDeadline(r)' => mro'[r].tolerance_exceeded = FALSE
               /\ now' > ToleranceDeadline(r)' => mro'[r].tolerance_exceeded = TRUE
         /\ (mro[r].tolerance_exceeded = FALSE /\ mro'[r].tolerance_exceeded = TRUE)
               => now' = ToleranceDeadline(r)]_vars

C10_Witness ==
    \E r \in Requests :
        /\ mro[r].tolerance_exceeded = TRUE
        /\ now = ToleranceDeadline(r)
        /\ mro[r].can_start_maintenance
        /\ mro[r].time_train_seized < ToleranceDeadline(r)

\* an event of kind k for process n is queued for time t
HasEvent(q, k, n, t) ==
    \E j \in 1..Len(q) : q[j].k = k /\ q[j].u = n /\ q[j].t = t

\* the time machine i has spent on finished parts, on its current part and
\* broken down, up to now
MachineTimeAccounted(m, t) ==
    IF m.pc = "working"
    THEN m.uptime + (PART_DURATION - m.done_in) + (t - m.start) + m.downtime
    ELSE m.uptime + (PART_DURATION - m.done_in) + m.downtime + (t - m.start_break)

\* C11: an interrupted job (the other job preempted, a machine's part broken
\* off) keeps as remaining duration what was outstanding at the interrupt,
\* keeps it while it waits, resumes with a timeout of exactly that duration
\* and ends only when that timeout expires; every machine's time is the sum
\* of its finished parts, the work done on its current part and its downtime,
\* so no work is lost or done twice.
C11_NoWorkLost ==
    [][ /\ ( /\ EquipmentResumes("Interruption")
             /\ Head(queue).u = OtherJobs
             /\ other_job.pc = "working" )
           => LET left == other_job.done_in - (Head(queue).t - other_job.start)
              IN  /\ left >= 0
                  /\ left > 0 => other_job'.done_in = left
        /\ (other_job.pc = "wait_repairman" /\ other_job'.pc = "wait_repairman")
           => other_job'.done_in = other_job.done_in
        /\ (other_job.pc = "wait_repairman" /\ other_job'.pc = "working")
           => /\ other_job'.done_in = other_job.done_in
              /\ other_job'.start = now'
              /\ HasEvent(queue', "other_jobs", OtherJobs, now' + other_job.done_in)
        /\ (EquipmentResumes("other_jobs") /\ other_job.pc = "working")
           => Head(queue).t = other_job.start + other_job.done_in
        /\ \A i \in Machines :
             LET m == machines[i]
                 m1 == machines'[i]
             IN  /\ ( /\ EquipmentResumes("Interruption")
                      /\ Head(queue).u = i
                      /\ m.pc = "working" )
                    => /\ m1.done_in = m.done_in - (Head(queue).t - m.start)
                       /\ m1.done_in >= 0
                 /\ (m.pc = "wait_repairman" /\ m1.pc \in {"wait_repairman", "repairing"})
                    => m1.done_in = m.done_in
                 /\ (m.pc = "repairing" /\ m1.pc = "working" /\ m.done_in > 0)
                    => /\ m1.done_in = m.done_in
                       /\ m1.start = now'
                       /\ m1.uptime = m.uptime
                       /\ HasEvent(queue', "Machine.working", i, now' + m.done_in)
                 /\ ( /\ EquipmentResumes("Machine.working")
                      /\ Head(queue).u = i
                      /\ m.pc = "working" )
                    => Head(queue).t = m.start + m.done_in
                 /\ m1.pc \in {"working", "wait_repairman", "repairing"}
                    => MachineTimeAccounted(m1, now') = now'
      ]_vars

C11_Witness ==
    /\ other_job.pc = "working"
    /\ other_job.done_in < JOB_DURATION
    /\ other_job.start > 0
    /\ \E i \in Machines :
         /\ machines[i].pc = "working"
         /\ machines[i].done_in < PART_DURATION
         /\ machines[i].downtime > 0

\* the processes holding a slot of the repairman
RepairmanUsers(res) == {res.users[j].proc : j \in 1..Len(res.users)}

\* the number of interrupts queued
Interruptions(q) == Cardinality({j \in 1..Len(q) : q[j].k = "Interruption"})

\* C12: when a broken machine asks for a repairman with every slot held and
\* the other job among the holders, the other job alone loses its slot and is
\* interrupted, and the machine holds a slot and has its grant queued for the
\* same time; when the interrupt reaches the other job it waits again in the
\* queue of the repairman with priority 2.
C12_PreemptsOtherJob ==
    [][ /\ \A n \in Machines :
             ( /\ EquipmentResumes("Interruption")
               /\ Head(queue).u = n
               /\ Len(repairman.users) = NUM_REPAIRMEN
               /\ OtherJobs \in RepairmanUsers(repairman) )
             => /\ RepairmanUsers(repairman') =
                       (RepairmanUsers(repairman) \ {OtherJobs}) \cup {n}
                /\ Len(repairman'.users) = NUM_REPAIRMEN
                /\ Interruptions(queue') = Interruptions(Tail(queue)) + 1
                /\ HasEvent(queue', "Interruption", OtherJobs, now')
                /\ HasEvent(queue', "Machine.working", n, now')
                /\ now' = Head(queue).t
        /\ ( /\ EquipmentResumes("Interruption")
             /\ Head(queue).u = OtherJobs )
           => /\ other_job.pc = "working"
              /\ OtherJobs \notin RepairmanUsers(repairman')
              /\ \E j \in 1..Len(repairman'.put_queue) :
                    /\ repairman'.put_queue[j].proc = OtherJobs
                    /\ repairman'.put_queue[j].priority = 2
                    /\ repairman'.put_queue[j].time = now'
      ]_vars

C12_Witness ==
    /\ \E j \in 1..Len(repairman.put_queue) :
         /\ repairman.put_queue[j].proc = OtherJobs
         /\ repairman.put_queue[j].priority = 2
         /\ \E k \in 1..Len(repairman.users) :
              /\ repairman.users[k].proc \in Machines
              /\ repairman.users[k].time = repairman.put_queue[j].time
    /\ Len(repairman.users) = NUM_REPAIRMEN
    /\ other_job.pc = "wait_repairman"
    /\ other_job.done_in < JOB_DURATION

\* the stages a request record has reached, in the order of the code:
\* created, admitted, road acquired, service started, exam finished, complete
StagesReached(rec) ==
    << rec.exists,
       rec.can_start_maintenance /\ rec.train_seized,
       rec.req # 0,
       rec.request_pc \in {"exam", "putting", "complete"},
       rec.request_pc \in {"putting", "complete"},
       rec.maintenance_complete >>

StageNumber(rec) ==
    Cardinality({j \in 1..6 : StagesReached(rec)[j]})

\* C13: the stages of every request are reached in the order created,
\* admitted, road acquired, service started, exam finished, complete: a stage
\* is reached only with all its predecessors reached, a stage once reached
\* stays reached, and a step moves a request by one stage, or by the two
\* stages admitted and road acquired when its own admission finds a road free.
C13_StagesInOrder ==
    [][\A r \in Requests :
         LET old == StagesReached(mro[r])
             new == StagesReached(mro'[r])
         IN  /\ \A j \in 2..6 : new[j] => new[j - 1]
             /\ \A j \in 1..6 : old[j] => new[j]
             /\ \/ StageNumber(mro'[r]) \in {StageNumber(mro[r]), StageNumber(mro[r]) + 1}
                \/ /\ Evaluates(r)
                   /\ StageNumber(mro[r]) = 1
                   /\ StageNumber(mro'[r]) = 3
                   /\ mro'[r].time_train_seized = now'
                   /\ mro'[r].req \in exam_reference[mro[r].exam_name]
      ]_vars

C13_Witness ==
    \E r \in Requests :
        /\ StageNumber(mro[r]) = 6
        /\ mro[r].time_train_seized > mro[r].request_time
        /\ mro[r].start_of_maintenance > mro[r].time_train_seized

\* the number of times request r is listed under unit u and activity a
Listed(u, a, r) ==
    Cardinality({j \in 1..Len(ACTIVE_MAINTENANCE[u][a]) : ACTIVE_MAINTENANCE[u][a][j] = r})

\* C14: ACTIVE_MAINTENANCE lists a request under (unit, activity) exactly
\* when it is a request of that unit and activity that has been created and has
\* not completed, and lists it once; a completed request is listed nowhere.
C14_RegistryHoldsOpenRequests ==
    \A u \in Units : \A a \in Activities : \A r \in Requests :
        /\ Listed(u, a, r) =
               IF /\ mro[r].exists
                  /\ ~mro[r].maintenance_complete
                  /\ mro[r].train = u
                  /\ mro[r].exam_name = a
               THEN 1 ELSE 0
        /\ \A j \in 1..Len(ACTIVE_MAINTENANCE[u][a]) :
               ACTIVE_MAINTENANCE[u][a][j] \in Requests

C14_Witness ==
    \E u \in Units : \E a \in Activities : \E r, x \in Requests :
        /\ mro[r].train = u /\ mro[r].exam_name = a
        /\ mro[r].maintenance_complete
        /\ mro[x].train = u /\ mro[x].exam_name = a
        /\ ACTIVE_MAINTENANCE[u][a] = <<x>>

\* the roads lying in the depot store
FreeRoads == {items[j] : j \in 1..Len(items)}

\* C15: the road a request has been given is one of the roads that
\* exam_reference lists for its activity, whatever other roads are free.
C15_RoadIsEligible ==
    \A r \in Requests :
        mro[r].req # 0 => mro[r].req \in exam_reference[mro[r].exam_name]

C15_Witness ==
    \E r, x \in Requests :
        /\ mro[r].request_pc = "getroad"
        /\ mro[r].req = 0
        /\ FreeRoads # {}
        /\ FreeRoads \cap exam_reference[mro[r].exam_name] = {}
        /\ x \in RoadHolders(mro[x].req)
        /\ mro[x].req \in exam_reference[mro[r].exam_name]

\* request x has asked for a road, still waits for it, and asked before y did
IssuedBefore(x, y) ==
    \E i \in 1..Len(get_queue) :
        /\ get_queue[i] = x
        /\ \A j \in 1..i : get_queue[j] # y

\* request y is given its road in this step
ObtainsRoad(y) == mro[y].req = 0 /\ mro'[y].req # 0

\* C16, as stated: of two requests with equal deadlines that ask for a road in
\* the same tick and share an eligible road, the one that asked first has its
\* road no later than the other.
C16_EarlierIssuedFirst ==
    [][\A x, y \in Requests :
         ( /\ x # y
           /\ IssuedBefore(x, y)
           /\ ObtainsRoad(y)
           /\ ToleranceDeadline(x) = ToleranceDeadline(y)
           /\ mro'[x].time_train_seized \div SubTicks =
                  mro'[y].time_train_seized \div SubTicks
           /\ exam_reference[mro[x].exam_name] \cap exam_reference[mro[y].exam_name] # {} )
         => mro'[x].req # 0]_vars

\* C16, amended: a request is never given a road that a request which asked
\* before it and still waits is eligible for; it overtakes only by taking a
\* road the earlier request may not use.
C16_SharedRoadToEarlier ==
    [][\A x, y \in Requests :
         ( /\ x # y
           /\ IssuedBefore(x, y)
           /\ ObtainsRoad(y)
           /\ mro'[x].req = 0 )
         => mro'[y].req \notin exam_reference[mro[x].exam_name]]_vars

C16_Witness ==
    \E h, x, y \in Requests :
        /\ h # x /\ x # y /\ h # y
        /\ mro[h].request_pc \in {"putting", "complete"}
        /\ mro[x].req = mro[h].req
        /\ x \in RoadHolders(mro[x].req)
        /\ mro[x].start_of_maintenance > mro[x].time_train_seized
        /\ \E i \in 1..Len(get_queue) : get_queue[i] = y
        /\ mro[x].req \in exam_reference[mro[y].exam_name]
        /\ mro[x].time_train_seized = mro[y].time_train_seized
        /\ ToleranceDeadline(x) = ToleranceDeadline(y)

\* the processes in a sequence of requests
Procs(q) == {q[j] : j \in 1..Len(q)}

\* a step from resource old to resource new grants no request while a request
\* that waited before it still waits
GrantsInOrder(old, new) ==
    \A n \in Procs(new.users) \ Procs(old.users) :
        \A i \in 1..Len(old.put_queue) :
            (\A j \in 1..i : old.put_queue[j] # n)
                => old.put_queue[i] \notin Procs(new.put_queue)

\* C17: the platforms, the run-in authority and the run-out authority are
\* granted in the order of the requests: no train becomes a user of a
\* resource while a train that asked for it earlier is still waiting for it.
C17_GrantsInRequestOrder ==
    [][ /\ GrantsInOrder(waterloo_platforms, waterloo_platforms')
        /\ GrantsInOrder(run_in_authority, run_in_authority')
        /\ GrantsInOrder(run_out_authority, run_out_authority')
      ]_vars

C17_Witness ==
    /\ Len(waterloo_platforms.users) = PLATFORMS
    /\ waterloo_platforms.put_queue # <<>>
    /\ \E n \in Procs(waterloo_platforms.users) : n > PLATFORMS
    /\ \E n \in Procs(run_in_authority.users) : n > RUN_IN
    /\ Len(run_in_authority.put_queue) > 1

\* C18: a run of the depot model is determined by its configuration: the
\* initial state is fixed by cfg, cfg never changes, and every step has one
\* possible outcome (no other step from the same state gives a different
\* state), so the completion records of two runs with one configuration are
\* the same sequence.
C18_Deterministic ==
    [][ /\ cfg' = cfg
        /\ \A v \in {vars'} : ~ENABLED (Next /\ vars' # v)
        /\ \/ maintenance_completes' = maintenance_completes
           \/ /\ Len(maintenance_completes') = Len(maintenance_completes) + 1
              /\ SubSeq(maintenance_completes', 1, Len(maintenance_completes))
                     = maintenance_completes
      ]_vars

C18_Witness ==
    /\ Len(maintenance_completes) >= 2
    /\ \E u \in Units : \E a \in Activities : act[u][a].pc = "interval"
    /\ \E r \in Requests : mro[r].exists /\ ~mro[r].maintenance_complete

\* the scenario run with the given flat timetable demand
ScenarioRun(demand) == cfg \in ScenarioConfigs /\ cfg.timetable[1] = demand

\* the requests in the depot that were admitted before their tolerance deadline
AdmittedInTime ==
    {r \in InDepot : mro[r].time_train_seized < ToleranceDeadline(r)}

\* C19 (as stated): in the scenario with timetable demand 8, occupancy is at
\* most 2 at every tick and no completion record has tolerance_exceeded = true.
C19_NoOverrideNeeded ==
    ScenarioRun(8) =>
        /\ trains_in_depot <= 2
        /\ \A i \in 1..Len(maintenance_completes) :
               maintenance_completes[i].tolerance_exceeded = FALSE

\* C19 (amended): in the scenario with timetable demand 8, at most 2 of the
\* requests in the depot were admitted before their tolerance deadline, so
\* occupancy exceeds 2 only by requests admitted through the override, and a
\* completion record has tolerance_exceeded = true exactly when its exam
\* started at or after the tolerance deadline of its request.
C19_OccupancyBeyondTwoByOverride ==
    ScenarioRun(8) =>
        /\ Cardinality(AdmittedInTime) <= 2
        /\ trains_in_depot <= 2 + Cardinality(InDepot \ AdmittedInTime)
        /\ \A i \in 1..Len(maintenance_completes) :
               LET c == maintenance_completes[i]
               IN  c.tolerance_exceeded = TRUE
                       <=> c.start_of_maintenance >= ToleranceDeadline(c.mro)

C19_Witness ==
    /\ ScenarioRun(8)
    /\ trains_in_depot > 2
    /\ InDepot \ AdmittedInTime # {}
    /\ \E i \in 1..Len(maintenance_completes) :
           maintenance_completes[i].tolerance_exceeded = TRUE
    /\ \E i \in 1..Len(maintenance_completes) :
           maintenance_completes[i].tolerance_exceeded = FALSE

\* C20: in the scenario with timetable demand 10, equal to the fleet size, no
\* request is admitted while its tolerance_exceeded flag is false, and every
\* completion record has tolerance_exceeded = true.
C20_EveryAdmissionByOverride ==
    [][ScenarioRun(10) =>
         /\ \A r \in Requests :
                (Evaluates(r) /\ mro'[r].can_start_maintenance)
                => mro[r].tolerance_exceeded = TRUE
         /\ \A i \in 1..Len(maintenance_completes') :
                maintenance_completes'[i].tolerance_exceeded = TRUE]_vars

C20_Witness ==
    /\ ScenarioRun(10)
    /\ Len(maintenance_completes) >= 2
    /\ \E r \in InDepot : mro[r].tolerance_exceeded = TRUE
    /\ \E r \in Requests : mro[r].request_pc = "await" /\ ~mro[r].tolerance_exceeded
\* C21 (as stated): a completion record carries tolerance_exceeded = true only
\* if its request was admitted with the flag already true, that is at or after
\* its tolerance deadline (time_left <= 0 in the record); a request admitted
\* before its deadline is recorded with tolerance_exceeded = false.
C21_FlaggedOnlyByOverride ==
    \A i \in 1..Len(maintenance_completes) :
        LET c == maintenance_completes[i]
        IN  c.tolerance_exceeded = TRUE => c.time_left <= 0

\* C21 (amended): a request is admitted with its flag true exactly when it is
\* admitted at or after its tolerance deadline; a completion record carries
\* tolerance_exceeded = true exactly when the exam started at or after the
\* deadline, so a request admitted with the flag true is always recorded true
\* and a request admitted before its deadline is recorded false exactly when
\* its exam also started before the deadline.
C21_FlaggedByLateStart ==
    [][ /\ \A r \in Requests :
               (Evaluates(r) /\ mro'[r].can_start_maintenance)
               => (mro[r].tolerance_exceeded = TRUE
                       <=> mro'[r].time_train_seized >= mro'[r].tolerance_time)
        /\ \A i \in 1..Len(maintenance_completes') :
               LET c == maintenance_completes'[i]
               IN  /\ c.tolerance_exceeded = TRUE
                          <=> c.start_of_maintenance >= c.time_train_seized + c.time_left
                   /\ c.time_left <= 0 => c.tolerance_exceeded = TRUE
      ]_vars

C21_Witness ==
    /\ \E i \in 1..Len(maintenance_completes) :
           LET c == maintenance_completes[i]
           IN  c.tolerance_exceeded = TRUE /\ c.time_left > 0
    /\ \E i \in 1..Len(maintenance_completes) :
           maintenance_completes[i].time_left <= 0
    /\ \E i \in 1..Len(maintenance_completes) :
           maintenance_completes[i].tolerance_exceeded = FALSE

\* C22: when the timetable updater finds fleet_size minus occupancy negative
\* it halts, and once halted it never runs again: no event of the updater is
\* pending, and timetable requirement, current available capacity, injection
\* flag and trains_available keep the values of the halting tick in every
\* later step.
C22_UpdaterHaltsOnNegativeCapacity ==
    [][ /\ (Resumes("update_timetable_requirement")
              /\ cfg.fleet_size - trains_in_depot < 0)
           => updater_pc' = "halted"
        /\ updater_pc = "halted"
           => /\ updater_pc' = "halted"
              /\ \A j \in 1..Len(queue) : queue[j].k # "update_timetable_requirement"
              /\ timetable_requirement' = timetable_requirement
              /\ available_to_maintain' = available_to_maintain
              /\ injection' = injection
              /\ trains_available' = trains_available
      ]_vars

C22_Witness ==
    /\ updater_pc = "halted"
    /\ trains_available < 0
    /\ timetable_requirement # cfg.timetable[TimetablePosition(now) + 1]

\* the activities whose interval type is none of the four known types
Unassigned == {a \in Activities : a <= cfg.activities
                                     /\ cfg.interval_type[a] \notin IntervalTypes}

\* C23: for an activity configured with an interval type other than 'service
\* hour', 'service day', 'calendar day' or 'mileage' no recurrence timer is
\* armed and no maintenance request is ever created.
C23_UnknownTypeIsFatal ==
    \A a \in Unassigned :
        /\ \A u \in Units : act[u][a].pc = "start"
        /\ \A r \in Requests : mro[r].exists => mro[r].exam_name # a

(***************************************************************************)
(* Properties of the termini model.                                        *)
(***************************************************************************)
\* C24: a release of a resource unit by a train that does not hold it through
\* the released request fails with ResourceMisuse and never succeeds
\* silently: every train that has issued such a release, be it for a request
\* that was already released or on the platform resource with the request of
\* another resource, has failed.
C24_ReleaseByNonHolderFails ==
    \A j \in 1..Len(ignored_releases) :
        termini_trains[ignored_releases[j].train].state = "failed"

\* the lookahead value a recomputation for request r at time t gives
LookaheadAt(r, t) ==
    SeqMax(FutureTimetableRequirements(t, cfg.exam_length[mro[r].exam_name]))

\* C25: until a request is admitted its lookahead process recomputes the max
\* future capacity once a tick (a recomputation is pending at most one tick
\* ahead, and each one stores fleet_size minus the maximum demand of the exam
\* window); once the request is admitted its max future capacity and its
\* maximum future timetable requirement never change again.
C25_LookaheadUntilAdmission ==
    [][\A r \in Requests :
         /\ mro[r].can_start_maintenance
            => /\ mro'[r].maximum_future_trains_to_maintain =
                      mro[r].maximum_future_trains_to_maintain
               /\ mro'[r].maximum_future_timetable_requirement =
                      mro[r].maximum_future_timetable_requirement
         /\ (mro'[r].exists /\ ~mro'[r].can_start_maintenance)
            => \E j \in 1..Len(queue') :
                   /\ queue'[j].k = "timetable_lookahead"
                   /\ queue'[j].r = r
                   /\ queue'[j].t <= now' + SubTicks
         /\ (Resumes("timetable_lookahead") /\ Head(queue).r = r
                /\ ~mro[r].can_start_maintenance)
            => /\ mro'[r].maximum_future_timetable_requirement = LookaheadAt(r, now')
               /\ mro'[r].maximum_future_trains_to_maintain =
                      cfg.fleet_size - LookaheadAt(r, now')
      ]_vars

C25_Witness ==
    \E r \in Requests :
        /\ mro[r].can_start_maintenance
        /\ mro[r].lookahead_pc = "done"
        /\ now > mro[r].time_train_seized
        /\ mro[r].time_train_seized > mro[r].request_time
        /\ mro[r].maximum_future_timetable_requirement # LookaheadAt(r, now)
        /\ mro[r].maximum_future_timetable_requirement
               = LookaheadAt(r, mro[r].time_train_seized)

\* the requests of unit u between admission and completion
UnderMaintenance(u) ==
    {r \in Requests : /\ mro[r].exists
                      /\ mro[r].train = u
                      /\ mro[r].can_start_maintenance
                      /\ ~mro[r].maintenance_complete}

\* C26: for every unit at most one of its maintenance requests, over all
\* activity types, is between admission and completion, and the unit's
\* in_maintenance flag is true exactly while there is such a request.
C26_OneRequestPerUnit ==
    \A u \in Units :
        /\ Cardinality(UnderMaintenance(u)) <= 1
        /\ in_maintenance[u] = TRUE <=> UnderMaintenance(u) # {}

C26_Witness ==
    \E u \in Units : \E r, w \in Requests :
        /\ UnderMaintenance(u) = {r}
        /\ mro[w].exists /\ mro[w].train = u
        /\ mro[w].exam_name # mro[r].exam_name
        /\ mro[w].request_pc = "await"
        /\ mro[w].tolerance_exceeded = TRUE

\* the smaller of the two capacities request r is tested against
Headroom(r) ==
    IF mro[r].maximum_future_trains_to_maintain <= available_to_maintain
    THEN mro[r].maximum_future_trains_to_maintain
    ELSE available_to_maintain

\* the requests admitted at the present time before their tolerance deadline
AdmittedThisTick ==
    {r \in Requests : /\ mro[r].can_start_maintenance
                      /\ mro[r].time_train_seized = now
                      /\ mro[r].time_train_seized < mro[r].tolerance_time}

\* C27: the step that finds a request's admission condition true also
\* increments occupancy, and occupancy changes in no step other than a
\* resumption of a request; each admitted request logs the occupancy the
\* previous admission left, so of the requests evaluated at one tick only as
\* many are admitted through the non-override branch as there is headroom,
\* and occupancy right after a non-override admission is at most
\* min(max_future_capacity, current available capacity).
C27_AdmissionIsAtomic ==
    [][ /\ trains_in_depot' # trains_in_depot => Resumes("maintenance_request")
        /\ \A r \in Requests :
               /\ (Evaluates(r) /\ mro'[r].can_start_maintenance)
                  => /\ trains_in_depot' = trains_in_depot + 1
                     /\ mro'[r].trains_in_depot_start = trains_in_depot
               /\ (Evaluates(r) /\ ~mro'[r].can_start_maintenance)
                  => trains_in_depot' = trains_in_depot
               /\ (Evaluates(r) /\ mro'[r].can_start_maintenance
                      /\ mro[r].tolerance_exceeded = FALSE)
                  => /\ trains_in_depot' <= Headroom(r)
                     /\ \A w \in AdmittedThisTick' :
                            w # r => mro'[w].trains_in_depot_start < trains_in_depot
                                         \/ mro'[w].request_pc \notin
                                                {"getroad", "granted", "blackout", "exam"}
      ]_vars

C27_Witness ==
    \E r, w, x \in Requests :
        /\ r # w
        /\ {r, w} \subseteq AdmittedThisTick
        /\ mro[w].trains_in_depot_start = mro[r].trains_in_depot_start + 1
        /\ trains_in_depot = Headroom(w)
        /\ mro[x].request_pc = "await"
        /\ mro[x].request_time <= now
        /\ ~mro[x].tolerance_exceeded
        /\ ~in_maintenance[mro[x].train]
        /\ \E j \in 1..Len(queue) :
               queue[j].k = "maintenance_request" /\ queue[j].r = x
                   /\ queue[j].t = now + SubTicks

\* the trains that have claimed platform k and not yet cleared its flag
Occupants(k) ==
    {n \in 1..TerminiTrains :
        /\ termini_trains[n].state = "run"
        /\ BranchPlatform(termini_trains[n].branch) = k
        /\ termini_trains[n].pc > 1
        /\ \E i \in termini_trains[n].pc..Len(TrainScript(termini_trains[n].branch)) :
               TrainScript(termini_trains[n].branch)[i] = Flag(k, FALSE)}

\* the train the next step resumes with its platform slot granted
GrantedSlot(n) ==
    /\ TerminiResumes("train")
    /\ Head(queue).u = n
    /\ termini_trains[n].branch = "arrive"
    /\ termini_trains[n].pc > 1

\* the trains whose request for a platform slot is still waiting
WaitingForSlot ==
    {n \in 1..TerminiTrains :
        \E j \in 1..Len(termini[TrPlatform].put_queue) :
            termini[TrPlatform].put_queue[j] = n}

\* C28: a train that is granted a platform slot finds a platform flag
\* unoccupied and claims a platform no other train occupies; every flag is set
\* exactly while one train occupies its platform, and a train that waits for a
\* slot has claimed no platform.
C28_ClaimsFreePlatform ==
    [][ /\ \A n \in 1..TerminiTrains :
               GrantedSlot(n)
               => /\ \E k \in PlatformNumbers : platform_occupied[k] = FALSE
                  /\ \E k \in PlatformNumbers :
                         /\ platform_occupied[k] = FALSE
                         /\ Occupants(k) = {}
                         /\ Occupants(k)' = {n}
        /\ \A k \in PlatformNumbers :
               /\ Cardinality(Occupants(k)') <= 1
               /\ platform_occupied'[k] = TRUE <=> Occupants(k)' # {}
        /\ \A n \in WaitingForSlot' :
               /\ termini_trains'[n].branch = "arrive"
               /\ \A k \in PlatformNumbers : n \notin Occupants(k)'
      ]_vars

C28_Witness ==
    \E n \in 1..TerminiTrains :
        /\ n > NUM_PLATFORMS
        /\ n \in Occupants(2)
        /\ Occupants(1) # {}
        /\ Occupants(4) # {}
        /\ WaitingForSlot # {}

(***************************************************************************)
(* Properties of the network map model.                                    *)
(***************************************************************************)
\* C29: the run without a horizon ends with the event queue exhausted, and
\* when it has ended the truck process has finished after len(path) - 1
\* timeouts, the recorded positions are the nodes of the path in path order,
\* each a travel time (never negative) after the one before, and nothing is
\* pending.
C29_RunEndsWhenQueueExhausted ==
    /\ <>(queue = <<>>)
    /\ [](queue = <<>> =>
            /\ truck_pc = "done"
            /\ truck_i + 1 = Len(truck_cfg.path) - 1
            /\ Len(truck_positions) = Len(truck_cfg.path)
            /\ \A j \in 1..Len(truck_positions) :
                   truck_positions[j].node = truck_cfg.path[j]
            /\ truck_positions[1].time = 0
            /\ \A j \in 1..(Len(truck_positions) - 1) :
                   /\ truck_positions[j].time <= truck_positions[j + 1].time
                   /\ truck_positions[j + 1].time =
                          truck_positions[j].time + TravelTime(truck_cfg.lengths[j])
            /\ now = truck_positions[Len(truck_positions)].time)

C29_Witness ==
    /\ queue = <<>>
    /\ truck_pc = "done"
    /\ Len(truck_cfg.path) = 3
    /\ Len(truck_positions) = 3
    /\ truck_positions[2].time = truck_positions[1].time
    /\ truck_positions[3].time > truck_positions[2].time

\* the requests of unit u for activity a that are created and not complete
OpenRequests(u, a) ==
    {r \in Requests : /\ mro[r].exists
                      /\ mro[r].train = u
                      /\ mro[r].exam_name = a
                      /\ ~mro[r].maintenance_complete}

\* C30: for every unit and activity type at most one maintenance request is
\* open at any time, and a request is created only when every earlier request
\* of the same unit and activity has completed at least the recurrence
\* interval before.
C30_OneOpenRequestPerActivity ==
    [][\A u \in Units : \A a \in Activities :
         /\ Cardinality(OpenRequests(u, a)') <= 1
         /\ \A r \in Requests :
                (~mro[r].exists /\ mro'[r].exists
                    /\ mro'[r].train = u /\ mro'[r].exam_name = a)
                => /\ OpenRequests(u, a) = {}
                   /\ \A i \in 1..Len(maintenance_completes) :
                          LET c == maintenance_completes[i]
                          IN  (c.train = u /\ c.exam_name = a)
                              => now' >= c.end_of_maintenance
                                             + cfg.time_between_repairs[a]
      ]_vars

C30_Witness ==
    \E u \in Units : \E a \in Activities : \E r, w \in Requests :
        /\ OpenRequests(u, a) = {w}
        /\ mro[r].exists /\ mro[r].train = u /\ mro[r].exam_name = a
        /\ mro[r].maintenance_complete
        /\ mro[w].request_time > mro[r].request_time
        /\ mro[w].can_start_maintenance

\* the lookahead process of request r has run its pass for time t: it has
\* armed its next pass one tick after t
LookaheadRanAt(r, t) ==
    /\ mro[r].lookahead_pc = "loop"
    /\ \E j \in 1..Len(queue) :
           /\ queue[j].k = "timetable_lookahead"
           /\ queue[j].r = r
           /\ queue[j].t = t + SubTicks

\* C31: whenever the admission condition of a request is about to be
\* evaluated, the request's lookahead process has already run its pass for
\* that same simulation time, the first evaluation right after creation
\* included: the stored maximum future requirement and max future capacity
\* are the ones computed for the time of the evaluation.
C31_LookaheadPrecedesEvaluation ==
    \A r \in Requests :
        Evaluates(r)
        => /\ LookaheadRanAt(r, Head(queue).t)
           /\ mro[r].maximum_future_timetable_requirement
                  = LookaheadAt(r, Head(queue).t)
           /\ mro[r].maximum_future_trains_to_maintain
                  = cfg.fleet_size - LookaheadAt(r, Head(queue).t)

\* a request about to be evaluated for the first time, at its creation time,
\* whose lookahead has replaced the value __init__ stored, and another one
\* about to be evaluated again a tick or more after it was created
C31_Witness ==
    \E r, w \in Requests :
        /\ Evaluates(r)
        /\ mro[r].request_pc = "init"
        /\ Head(queue).t = mro[r].request_time
        /\ mro[r].maximum_future_timetable_requirement # timetable_requirement
        /\ mro[w].request_pc = "await"
        /\ mro[w].request_time < Head(queue).t

\* the request whose blackout check the next step makes
ChecksBlackout(r) ==
    /\ Resumes("maintenance_request")
    /\ Head(queue).r = r
    /\ mro[r].request_pc \in {"granted", "blackout"}

\* the globals hold the timetable values of the tick of time t
GlobalsOfTick(t) ==
    /\ injection = cfg.injection_window[TimetablePosition(t) + 1]
    /\ available_to_maintain = cfg.fleet_size - cfg.timetable[TimetablePosition(t) + 1]
    /\ timetable_requirement = cfg.timetable[TimetablePosition(t) + 1]

\* C32: while the timetable updater has not halted, a request whose admission
\* condition or blackout check is about to be evaluated at an integer tick
\* reads the injection flag and the available capacity of that tick: the
\* updater's pass for the tick has already run.
C32_UpdaterPrecedesEvaluation ==
    \A r \in Requests :
        ( /\ Evaluates(r) \/ ChecksBlackout(r)
          /\ updater_pc = "run"
          /\ Head(queue).t % SubTicks = 0 )
        => GlobalsOfTick(Head(queue).t)

\* the requests created and not yet admitted
PendingRequests ==
    {r \in Requests : mro[r].exists /\ ~mro[r].can_start_maintenance}

\* the pending requests whose request process has not yet had its first
\* resumption: created by __init__, their Initialize event still queued
NotYetStarted == {r \in Requests : mro[r].request_pc = "init"}

\* C33 as stated: the live-request counter always equals the number of
\* requests created and not yet admitted.
C33_CountsCreatedNotAdmitted ==
    live_maintenance_requests = Cardinality(PendingRequests)

\* C33: the live-request counter equals the number of requests whose request
\* process has started and that are not yet admitted; a request created by
\* __init__ joins the count at the first resumption of its process, which is
\* due at the time of its creation, so the counter equals the number of
\* requests created and not yet admitted whenever no such resumption is
\* pending.  The counter is never negative.
C33_CountsStartedNotAdmitted ==
    /\ live_maintenance_requests >= 0
    /\ NotYetStarted \subseteq PendingRequests
    /\ live_maintenance_requests = Cardinality(PendingRequests \ NotYetStarted)
    /\ \A r \in NotYetStarted :
           /\ mro[r].request_time = Head(queue).t
           /\ \E j \in 1..Len(queue) :
                  /\ queue[j].k = "maintenance_request"
                  /\ queue[j].r = r
                  /\ queue[j].t = mro[r].request_time
                  /\ queue[j].p = URGENT

\* one request is counted, one has been admitted after a wait, and a request
\* created at the present time is not yet counted
C33_Witness ==
    /\ live_maintenance_requests = 1
    /\ NotYetStarted # {}
    /\ \E r \in Requests :
           /\ mro[r].can_start_maintenance
           /\ mro[r].time_train_seized > mro[r].request_time

\* the requests admitted and not yet complete
Admitted(r) == mro[r].can_start_maintenance /\ ~mro[r].maintenance_complete

\* the requests that hold a road
WithRoad == {r \in Requests :
                mro[r].request_pc \in {"granted", "blackout", "exam", "putting"}}

\* the requests waiting for a road ahead of request r, r included
AheadInQueue(r) ==
    {get_queue[j] : j \in {i \in 1..Len(get_queue) :
                              \E h \in i..Len(get_queue) : get_queue[h] = r}}

\* the ticks a request with a road needs at most: the wait for a tick of the
\* cycle where the injection flag is false, then its exam
ServiceTicks(r) ==
    (IF \E i \in 1..Len(cfg.injection_window) : cfg.injection_window[i]
     THEN Len(cfg.injection_window) - 1 ELSE 0)
    + cfg.exam_length[mro[r].exam_name]

RECURSIVE SumServiceTicks(_)
SumServiceTicks(S) ==
    IF S = {} THEN 0
    ELSE LET r == CHOOSE x \in S : TRUE
         IN  ServiceTicks(r) + SumServiceTicks(S \ {r})

\* the run lasts long enough for request r: the requests that hold a road and
\* those ahead of r in the queue can all be served, one after another, and
\* then r, before SIM_TIME
TimeToComplete(r) ==
    now + SubTicks * SumServiceTicks(WithRoad \cup AheadInQueue(r) \cup {r}) < SIM_TIME

\* the preconditions of C34: a road is eligible for the activity of r and the
\* injection sequence is false at some tick of the cycle
Servable(r) ==
    /\ cfg.exam_reference[mro[r].exam_name] \cap {DepotRoads[i] : i \in 1..Len(DepotRoads)} # {}
    /\ \E i \in 1..Len(cfg.injection_window) : ~cfg.injection_window[i]

TerminiWaitsOn(n) ==
    {res \in 1..5 : \E j \in 1..Len(termini[res].put_queue) :
                        termini[res].put_queue[j] = n}

TerminiHeldBy(n) ==
    {res \in 1..5 : \E j \in 1..Len(termini[res].users) :
                        termini[res].users[j] = n}

\* train n waits for a resource that train m holds
WaitsForTrain(n, m) == TerminiWaitsOn(n) \cap TerminiHeldBy(m) # {}

\* a chain of at most k waits leads from train n to train m
RECURSIVE WaitChain(_, _, _)
WaitChain(n, m, k) ==
    /\ k > 0
    /\ \/ WaitsForTrain(n, m)
       \/ \E x \in 1..TerminiTrains : WaitsForTrain(n, x) /\ WaitChain(x, m, k - 1)

\* the order in which every train acquires the resources: a platform slot,
\* then an authority, then the platform 2 and the platform 1 outbound route
AcquisitionRank(res) ==
    CASE res = TrPlatform -> 0
      [] res \in {TrRunInAuthority, TrRunOutAuthority} -> 1
      [] res = TrP2Outbound -> 2
      [] res = TrP1Outbound -> 3

\* C35: the terminus does not deadlock.  In no state does a set of trains
\* wait cyclically on the platform slots, the run-in and run-out authority
\* and the two outbound routes: a train only waits for a resource that comes
\* later in one common order than everything it holds.  When no event is
\* left every train has finished and every resource is free with nobody
\* waiting; and a train that has been granted a platform slot eventually
\* finishes holding nothing.
C35_NoDeadlock ==
    /\ [](\A n \in 1..TerminiTrains : ~WaitChain(n, n, TerminiTrains))
    /\ [](\A n \in 1..TerminiTrains :
             \A w \in TerminiWaitsOn(n) : \A h \in TerminiHeldBy(n) :
                 AcquisitionRank(h) < AcquisitionRank(w))
    /\ [](queue = <<>> =>
            /\ \A n \in 1..TerminiTrains : termini_trains[n].state = "done"
            /\ \A res \in 1..5 : termini[res] = NoResource)
    /\ \A n \in 1..TerminiTrains :
           (TrPlatform \in TerminiHeldBy(n))
               ~> (termini_trains[n].state = "done" /\ TerminiHeldBy(n) = {})

\* a train leaving platform 1 holds the run-out authority and the platform 2
\* outbound route and waits for the platform 1 outbound route, which a train
\* running in holds together with the run-in authority, while other trains
\* wait for the run-in authority and for a platform slot
C35_Witness ==
    \E n, m \in 1..TerminiTrains :
        /\ TerminiHeldBy(n) = {TrPlatform, TrRunOutAuthority, TrP2Outbound}
        /\ TerminiWaitsOn(n) = {TrP1Outbound}
        /\ {TrRunInAuthority, TrP1Outbound} \subseteq TerminiHeldBy(m)
        /\ termini[TrRunInAuthority].put_queue # <<>>
        /\ termini[TrPlatform].put_queue # <<>>

\* the trains that occupy platform number p: they have picked it and have not
\* yet put it back into the list
OccupyingPlatform(p) ==
    {n \in 1..WaterlooTrains :
        /\ trains[n].pc \in {"wait_run_in", "running_in", "boarding",
                             "wait_run_out", "running_out"}
        /\ trains[n].platform_choice = p}

\* the train the next step resumes with its platform slot granted
PicksPlatform(n) ==
    /\ WaterlooResumes("run_in_run_out_waterloo")
    /\ Head(queue).u = n
    /\ trains[n].pc = "wait_platform"

\* C36: at Waterloo the free-platform list is not empty when a train that has
\* been granted a platform slot picks its platform; in every state the list
\* has no duplicates, no platform number is occupied by two trains, and a
\* platform number is absent from the list exactly while one train occupies
\* it.
C36_FreePlatformsConsistent ==
    /\ \A n \in 1..WaterlooTrains : PicksPlatform(n) => free_platforms # <<>>
    /\ \A i, j \in 1..Len(free_platforms) :
           i # j => free_platforms[i] # free_platforms[j]
    /\ \A p \in 1..PLATFORMS :
           /\ Cardinality(OccupyingPlatform(p)) <= 1
           /\ (\A i \in 1..Len(free_platforms) : free_platforms[i] # p)
                  <=> Cardinality(OccupyingPlatform(p)) = 1

\* a train that had to wait for a platform slot is about to pick the only
\* free platform, the one the train that left has put back
C36_Witness ==
    \E n \in 1..WaterlooTrains :
        /\ n > PLATFORMS
        /\ PicksPlatform(n)
        /\ Len(free_platforms) = 1
        /\ \E m \in 1..WaterlooTrains :
               /\ trains[m].pc = "left"
               /\ trains[m].platform_choice = free_platforms[1]

\* C37: a machine's working process is interrupted only while it is in its
\* working timeout: the Interrupt that is about to be thrown into a machine
\* finds it working and not broken (neither waiting for a repairman nor in
\* repair), whatever scheduled it: the breakdown process, a forced break or
\* a preemption of its hold on the repairman.
C37_InterruptOnlyWhileWorking ==
    (queue # <<>> /\ Head(queue).k = "Interruption" /\ Head(queue).u \in Machines)
        => /\ machines[Head(queue).u].pc = "working"
           /\ ~machines[Head(queue).u].broken

=============================================================================
